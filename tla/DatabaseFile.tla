----------------------------- MODULE DatabaseFile -----------------------------
(***************************************************************************)
(* The database as a file: which tables it has, the values of its table    *)
(* config, and whose notes it holds up to which number.  What init_db and  *)
(* upgrade_db do to it is a sequence of writes; each is committed on its   *)
(* own (Python's sqlite3 opens no transaction for statements that change   *)
(* the schema), so that a command may end after any of them.               *)
(*                                                                         *)
(* Indexes are left out: they do not change what a query returns.          *)
(***************************************************************************)
EXTENDS Naturals, Sequences

CONSTANT None

CURRENT_DB_VERSION == 7

DB_SCHEMA == <<"notebooks", "notebooks_linked", "notes", "tasks", "reminders",
               "shared_notes", "config">>

Tables == {DB_SCHEMA[i] : i \in DOMAIN DB_SCHEMA}

ConfigNames == {"DB_VERSION", "USN", "auth_token", "user", "backend",
                "last_connection_tasks", "last_connection_shared_notes"}

EmptyFile == [tables |-> {},
              config |-> [name \in ConfigNames |-> None],
              notes  |-> [owner |-> None, upto |-> 0]]

\* A file as a release with the given version of the database left it.
OldFile(version, USN, auth_token, user) ==
    [tables |-> {"notebooks", "notes", "config"}
                \cup (IF version >= 4 THEN {"notebooks_linked"} ELSE {})
                \cup (IF version >= 6 THEN {"tasks", "reminders"} ELSE {}),
     config |-> [EmptyFile.config EXCEPT
                    !["DB_VERSION"] = IF version = 0 THEN None ELSE version,
                    !["USN"] = USN,
                    !["auth_token"] = auth_token,
                    !["user"] = user,
                    !["backend"] = "evernote",
                    !["last_connection_tasks"] = IF version >= 6 THEN 0 ELSE None],
     notes  |-> [owner |-> user, upto |-> USN]]

----------------------------------------------------------------------------
(* Writes.                                                                 *)

Set(name, value) == [op |-> "set", name |-> name, value |-> value]
Create(table)    == [op |-> "create", name |-> table, value |-> None]
Drop(table)      == [op |-> "drop", name |-> table, value |-> None]
Insert(table)    == [op |-> "insert", name |-> table, value |-> None]
Raise            == [op |-> "raise", name |-> "DatabaseResyncRequiredError", value |-> None]

\* SQLite refuses to drop or to write a table that is not there.
Fails(file, w) ==
    \/ w.op = "raise"
    \/ w.op \in {"drop", "insert"} /\ w.name \notin file.tables
    \/ w.op = "set" /\ "config" \notin file.tables

Do(file, w) ==
    CASE w.op = "set"    -> [file EXCEPT !.config[w.name] = w.value]
      [] w.op = "create" -> [file EXCEPT !.tables = @ \cup {w.name}]
      [] w.op = "drop"   -> [file EXCEPT !.tables = @ \ {w.name},
                                         !.notes = IF w.name = "notes"
                                                   THEN EmptyFile.notes ELSE @]
      [] OTHER           -> file

\* set_config_value on its own.
set_config_value(file, name, value) == Do(file, Set(name, value))

----------------------------------------------------------------------------
(* Sequences of writes.                                                    *)

CreateSchema == [i \in DOMAIN DB_SCHEMA |-> Create(DB_SCHEMA[i])]

\* initialize_db, and the values that init_db writes; the last one inserts
\* the notebook "Shared with me".
InitWrites(auth_token, user, backend) ==
    CreateSchema \o
    <<Set("DB_VERSION", CURRENT_DB_VERSION), Set("USN", 0), Set("auth_token", auth_token),
      Set("user", user), Set("backend", backend), Set("last_connection_tasks", 0),
      Set("last_connection_shared_notes", 0), Insert("notebooks")>>

When(condition, writes) == IF condition THEN writes ELSE <<>>

\* Fault: the version is saved before the migrations have run.
upgrade_db_version_first(v) ==
    When(v = 0, <<Drop("notebooks"), Drop("notes")>> \o CreateSchema)
    \o <<Set("DB_VERSION", CURRENT_DB_VERSION)>>
    \o When(v < 4, <<Create("notebooks_linked")>>)
    \o When(v < 6, <<Set("last_connection_tasks", 0), Create("tasks"), Create("reminders")>>)
    \o When(v < 7, <<Set("last_connection_shared_notes", 0), Create("shared_notes"),
                     Insert("notebooks")>>)
    \o When(v = 0, <<Set("USN", 0), Raise>>)

\* Fault: a version without a version number is not scanned again.
upgrade_db_no_resync(v) ==
    When(v = 0, <<Drop("notebooks"), Drop("notes")>> \o CreateSchema)
    \o When(v < 4, <<Create("notebooks_linked")>>)
    \o When(v < 6, <<Set("last_connection_tasks", 0), Create("tasks"), Create("reminders")>>)
    \o When(v < 7, <<Set("last_connection_shared_notes", 0), Create("shared_notes"),
                     Insert("notebooks")>>)
    \o <<Set("DB_VERSION", CURRENT_DB_VERSION)>>

\* upgrade_db.  The oldest format is thrown away, and the user is told to
\* sync again.
upgrade_db(v) ==
    When(v = 0, <<Drop("notebooks"), Drop("notes")>> \o CreateSchema)
    \o When(v < 4, <<Create("notebooks_linked")>>)
    \o When(v < 6, <<Set("last_connection_tasks", 0), Create("tasks"), Create("reminders")>>)
    \o When(v < 7, <<Set("last_connection_shared_notes", 0), Create("shared_notes"),
                     Insert("notebooks")>>)
    \o <<Set("DB_VERSION", CURRENT_DB_VERSION)>>
    \o When(v = 0, <<Set("USN", 0), Raise>>)
============================================================================
