------------------------------- MODULE Commands -------------------------------
(***************************************************************************)
(* The commands that change who and what the database belongs to: init-db, *)
(* reauth and sync, one after the other on one file, each of which may die *)
(* between any two of its steps.  A step is one request, one commit or one *)
(* change of the file.                                                     *)
(*                                                                         *)
(* The scan of notes, which NoteSync models, is two commits here: what the *)
(* account has is stored, then its number is saved.                        *)
(***************************************************************************)
EXTENDS Login

INSTANCE DatabaseFile

CONSTANTS MaxUSN, MaxGen,  \* bounds on changes and on refreshes of an account
          MaxCommands,     \* bound on commands
          MaxFaults        \* bound on deaths

ASSUME CommandsAssumption == MaxUSN \in Nat /\ MaxGen \in Nat /\ MaxCommands \in Nat

Backends == {"evernote", "china"}

VARIABLES
    file,        \* the database file, None if there is none
    refreshGen,  \* the refresh token the service accepts, of every account
    cmd,         \* the running command with its options, None between two
    pc,
    auth,        \* auth_resolved: the credential in hand
    updated,     \* auth_resolved.updated
    writes,      \* what is left of a sequence of writes
    commands, faults,
    halfUpgraded \* for the properties: a version 0 upgrade has died

command == <<cmd, pc, auth, updated, writes>>
bounds  == <<commands, faults, halfUpgraded>>
vars    == <<file, refreshGen, command, bounds, login>>

Init ==
    /\ \/ file = None
       \/ \E version \in 0 .. 6, user \in Users :
             file = OldFile(version, 1, [kind |-> "monolith", user |-> user, gen |-> 0], user)
    /\ refreshGen = [u \in Users |-> 0]
    /\ cmd = None /\ pc = "idle" /\ auth = None /\ updated = FALSE /\ writes = <<>>
    /\ commands = 0 /\ faults = 0 /\ halfUpgraded = FALSE
    /\ LoginOff

----------------------------------------------------------------------------
(* The command line.  A credential is given with --token, or None.         *)

GivenTokens == {t \in [kind : {"monolith", "refresh", "bundle"}, user : Users,
                       gen : 0 .. MaxGen] :
                   IF t.kind = "monolith" THEN t.gen = 0 ELSE t.gen <= refreshGen[t.user]}

\* With --token the options of the login do not matter.
Credentials ==
    [token : GivenTokens, how : {None}] \cup [token : {None}, how : Options]

Start(c, step) ==
    /\ pc = "idle" /\ commands < MaxCommands
    /\ commands' = commands + 1
    /\ cmd' = c /\ auth' = c.token
    /\ pc' = step
    /\ UNCHANGED <<file, refreshGen, updated, writes, faults, halfUpgraded, login>>

InitDb ==
    \E c \in Credentials, force \in BOOLEAN, backend \in Backends :
        /\ force \/ file = None
        /\ Start([name |-> "init_db", token |-> c.token, how |-> c.how, force |-> force,
                  backend |-> backend],
                 IF c.token = None THEN "login" ELSE "resolve")

Reauth ==
    \E c \in Credentials :
        /\ file # None
        /\ Start([name |-> "reauth", token |-> c.token, how |-> c.how], "checkVersion")

Sync ==
    \E t \in GivenTokens \cup {None} :
        /\ file # None
        /\ Start([name |-> "sync", token |-> t], "checkVersion")

Continue(step) ==
    /\ pc' = step
    /\ UNCHANGED <<file, refreshGen, cmd, auth, updated, writes, bounds, login>>

\* The command is over: it has succeeded, or handle_errors reports why not.
Ended ==
    /\ pc' = "idle" /\ cmd' = None /\ auth' = None /\ updated' = FALSE /\ writes' = <<>>
    /\ StopLogin

Exit == Ended /\ UNCHANGED <<file, refreshGen, bounds>>

----------------------------------------------------------------------------
(* check_version and upgrade_db; init_db's own writes.                     *)

CheckVersion ==
    LET version == IF file.config["DB_VERSION"] = None THEN 0
                   ELSE file.config["DB_VERSION"] IN
    /\ pc = "checkVersion"
    /\ \/ "config" \notin file.tables /\ Exit
       \/ /\ "config" \in file.tables
          /\ IF version = CURRENT_DB_VERSION
             THEN Continue("backend")
             ELSE /\ writes' = upgrade_db(version)
                  /\ pc' = "write"
                  /\ UNCHANGED <<file, refreshGen, cmd, auth, updated, bounds, login>>

Write ==
    /\ pc = "write"
    /\ \/ /\ writes = <<>>
          /\ IF cmd.name = "init_db" THEN Exit ELSE Continue("backend")
       \/ /\ writes # <<>> /\ Fails(file, Head(writes))
          /\ Exit
       \/ /\ writes # <<>> /\ ~ Fails(file, Head(writes))
          /\ file' = Do(file, Head(writes))
          /\ writes' = Tail(writes)
          /\ UNCHANGED <<refreshGen, cmd, pc, auth, updated, bounds, login>>

\* raise_on_existing_database once more, or the old file is removed.
InitializeStorage ==
    /\ pc = "initialize"
    /\ IF file # None /\ ~ cmd.force THEN Exit
       ELSE /\ file' = None
            /\ pc' = "create"
            /\ UNCHANGED <<refreshGen, cmd, auth, updated, writes, bounds, login>>

CreateFile ==
    /\ pc = "create"
    /\ file' = EmptyFile
    /\ writes' = InitWrites(auth, auth.user, cmd.backend)
    /\ pc' = "write"
    /\ UNCHANGED <<refreshGen, cmd, auth, updated, bounds, login>>

----------------------------------------------------------------------------
(* The credential.                                                         *)

\* A value of config that is missing is a KeyError.
Backend ==
    /\ pc = "backend"
    /\ IF file.config["backend"] = None THEN Exit
       ELSE Continue(IF cmd.token # None THEN "resolve"
                     ELSE IF cmd.name = "sync" THEN "stored" ELSE "login")

StoredToken ==
    /\ pc = "stored"
    /\ IF file.config["auth_token"] = None THEN Exit
       ELSE /\ auth' = file.config["auth_token"]
            /\ pc' = "resolve"
            /\ UNCHANGED <<file, refreshGen, cmd, updated, writes, bounds, login>>

LoginBackend == IF cmd.name = "init_db" THEN cmd.backend ELSE file.config["backend"]

LoginStep ==
    /\ pc = "login" /\ lpc # "over"
    /\ LoginProgram(LoginBackend, cmd.how, refreshGen)
    /\ UNCHANGED <<file, refreshGen, command, bounds>>

LoginInputs ==
    /\ pc = "login" /\ LoginInput
    /\ UNCHANGED <<file, refreshGen, command, bounds>>

LoginServes ==
    /\ pc = "login" /\ Serve
    /\ UNCHANGED <<file, refreshGen, command, bounds>>

\* Fault: a login that failed is still there when the next command runs.
LoggedInOnlyOnce ==
    /\ pc = "login" /\ lpc = "over"
    /\ IF token = None
       THEN /\ pc' = "idle" /\ cmd' = None /\ auth' = None
            /\ UNCHANGED <<file, refreshGen, updated, writes, bounds, login>>
       ELSE /\ auth' = token
            /\ pc' = "resolve"
            /\ StopLogin
            /\ UNCHANGED <<file, refreshGen, cmd, updated, writes, bounds>>

LoggedIn ==
    /\ pc = "login" /\ lpc = "over"
    /\ IF token = None THEN Exit
       ELSE /\ auth' = token
            /\ pc' = "resolve"
            /\ StopLogin
            /\ UNCHANGED <<file, refreshGen, cmd, updated, writes, bounds>>

\* resolve_auth_token.  Whether an access token is close to its end, and
\* whether a refresh token is, is a matter of time.
Resolve ==
    /\ pc = "resolve"
    /\ CASE auth.kind = "monolith" -> Continue("persist")
         [] auth.kind = "refresh"  -> Continue("refresh")
         [] OTHER                  -> Exit \/ Continue("refresh") \/ Continue("verify")

\* refresh_oauth_token: the service may replace the refresh token, and the
\* answer may be lost after it did.
Refresh ==
    /\ pc = "refresh"
    /\ IF auth.gen # refreshGen[auth.user] THEN Exit
       ELSE \E gen \in {auth.gen, auth.gen + 1} \cap 0 .. MaxGen :
               /\ refreshGen' = [refreshGen EXCEPT ![auth.user] = gen]
               /\ \/ Ended
                  \/ /\ auth' = [auth EXCEPT !.kind = "bundle", !.gen = gen]
                     /\ updated' = TRUE
                     /\ pc' = "verify"
                     /\ UNCHANGED <<cmd, writes, login>>
               /\ UNCHANGED <<file, bounds>>

\* verify_and_log_oauth_session asks users/me.
Verify ==
    /\ pc = "verify"
    /\ Exit \/ Continue("persist")

\* Fault: sync does not save what it refreshed.
PersistNever == pc = "persist" /\ Continue("client")

\* sync saves what it has refreshed, unless the token was a one-off.
Persist ==
    /\ pc = "persist"
    /\ IF cmd.name = "sync" /\ updated /\ cmd.token = None
       THEN /\ file' = set_config_value(file, "auth_token", auth)
            /\ pc' = "client"
            /\ UNCHANGED <<refreshGen, cmd, auth, updated, writes, bounds, login>>
       ELSE Continue("client")

\* get_sync_client: verify_token answers for the account of the token, or the
\* token is refused, or the retries of the transport are used up.
SyncClient ==
    /\ pc = "client"
    /\ Exit \/ Continue(IF cmd.name = "init_db" THEN "initialize" ELSE "checkUser")

\* Fault: the account is checked for a stored token only.
CheckUserOfStoredToken ==
    /\ pc = "checkUser"
    /\ IF cmd.token = None /\ file.config["user"] # auth.user
       THEN Exit ELSE Continue(IF cmd.name = "reauth" THEN "storeToken" ELSE "scan")

\* reauth and _raise_on_wrong_user compare the account with the user of the
\* database.
CheckUser ==
    /\ pc = "checkUser"
    /\ IF file.config["user"] # auth.user
       THEN Exit ELSE Continue(IF cmd.name = "reauth" THEN "storeToken" ELSE "scan")

StoreToken ==
    /\ pc = "storeToken"
    /\ file' = set_config_value(file, "auth_token", auth)
    /\ Ended /\ UNCHANGED <<refreshGen, bounds>>

----------------------------------------------------------------------------
(* sync().                                                                 *)

\* What is beyond the saved number is asked for and stored; the number of an
\* account only grows.
Scan ==
    LET USN == file.config["USN"] IN
    /\ pc = "scan"
    /\ IF USN = None \/ ~ {"notes", "notebooks"} \subseteq file.tables THEN Exit
       ELSE /\ \E count \in USN .. MaxUSN :
                  /\ file' = [file EXCEPT !.notes =
                                 [owner |-> auth.user,
                                  upto  |-> IF @.upto >= USN THEN count ELSE @.upto]]
                  /\ writes' = <<Set("USN", count)>>
            /\ pc' = "saveUSN"
            /\ UNCHANGED <<refreshGen, cmd, auth, updated, bounds, login>>

\* Without a JWT, i.e. with a monolith token, there is no second protocol.
SaveUSN ==
    /\ pc = "saveUSN"
    /\ file' = Do(file, Head(writes))
    /\ IF auth.kind = "bundle"
       THEN /\ pc' = "sharedNotes" /\ writes' = <<>>
            /\ UNCHANGED <<cmd, auth, updated, login>>
       ELSE Ended
    /\ UNCHANGED <<refreshGen, bounds>>

\* The cursors of the second protocol are read when its phases begin.
SharedNotes ==
    /\ pc = "sharedNotes"
    /\ IF file.config["last_connection_shared_notes"] = None THEN Exit
       ELSE Continue("tasks")

TasksPhase == pc = "tasks" /\ Exit

Die ==
    /\ pc # "idle" /\ faults < MaxFaults
    /\ faults' = faults + 1
    /\ halfUpgraded' = (halfUpgraded \/ (pc = "write" /\ Raise \in {writes[i] : i \in DOMAIN writes}))
    /\ Ended
    /\ UNCHANGED <<file, refreshGen, commands>>

----------------------------------------------------------------------------
Step == \/ CheckVersion \/ Write \/ InitializeStorage \/ CreateFile
        \/ Backend \/ StoredToken \/ LoginStep \/ LoggedIn
        \/ Resolve \/ Refresh \/ Verify \/ Persist \/ SyncClient \/ CheckUser \/ StoreToken
        \/ Scan \/ SaveUSN \/ SharedNotes \/ TasksPhase

Next == \/ Step \/ LoginServes \/ LoginInputs \/ Die
        \/ InitDb \/ Reauth \/ Sync

Spec == Init /\ [][Next]_vars

\* A running command takes its next step.  A connection to the callback
\* server ends: browsers close one that they opened ahead and did not use.
FairSpec == Spec /\ WF_vars(Step) /\ WF_vars(LoginServes)

----------------------------------------------------------------------------
(* Properties.                                                             *)

TypeOK ==
    /\ LoginTypeOK
    /\ file # None =>
          /\ file.tables \subseteq Tables
          /\ file.config["auth_token"] \in Token \cup {None}
          /\ file.config["user"] \in Users \cup {None}
          /\ file.notes \in [owner : Users \cup {None}, upto : Nat]
    /\ refreshGen \in [Users -> 0 .. MaxGen]
    /\ auth \in Token \cup {None}
    /\ lpc # "off" => pc = "login"

\* A database belongs to one account ("Each user must use a different
\* database file", cli_app.py:147): whatever is given with --token and whoever
\* logs in, the credential it holds and the notes it holds are its user's,
\* also in what a command that died has left.
OneOwner ==
    file # None =>
        LET config == file.config IN
        /\ config["auth_token"] # None /\ config["user"] # None
              => config["auth_token"].user = config["user"]
        /\ file.notes.owner # None => config["user"] = file.notes.owner

\* Once a sync that renewed the stored credential has saved it, the database
\* holds the one refresh token that the service accepts, whatever fails then:
\* the next sync can renew again.  Before, while users/me is asked, it is in
\* memory alone: if that request fails, a token the service replaced is lost.
AccessKept ==
    cmd # None /\ cmd.name = "sync" /\ cmd.token = None /\ updated =>
        \/ pc \in {"verify", "persist"}
        \/ file.config["auth_token"] = auth /\ auth.gen = refreshGen[auth.user]

\* A file that claims the current version has every table: an upgrade or a
\* creation that died is either repeated or refused, never taken for complete.
TablesComplete ==
    file # None /\ file.config["DB_VERSION"] = CURRENT_DB_VERSION => file.tables = Tables

\* No number is saved beyond what the notes table holds, except after a death
\* inside the upgrade of a version 0 database.
ClaimsNothingMissing ==
    /\ file # None /\ file.config["DB_VERSION"] = CURRENT_DB_VERSION
    /\ file.config["USN"] # None /\ pc # "write" /\ ~ halfUpgraded
    => file.notes.upto >= file.config["USN"]

\* An import takes the session of the account that was asked for, or none.
RightAccount ==
    /\ pc = "login" /\ lpc = "over" /\ token # None
    /\ LoginBackend # "china"
    /\ cmd.how.oauth_method = "import" /\ cmd.how.oauth_en_user # None
    => token.user = cmd.how.oauth_en_user

\* An answer that has arrived, by browser or by paste, ends the login, even
\* if the one thread of the callback server is busy with another connection.
LoginEnds == lpc = "wait" /\ (callback # None \/ pasted # None) ~> lpc # "wait" /\ lpc # "shutdown"
============================================================================
