---------------------------- MODULE Commands_proofs ----------------------------
(***************************************************************************)
(* Whose the database is: init-db, reauth and sync, for any accounts, any  *)
(* desktop sessions, any number of commands and of deaths.                 *)
(***************************************************************************)
EXTENDS Commands, FiniteInduction

IsToken(t) == t \in Token

\* A database, whatever tables and values it lacks.
IsFile(f) ==
    /\ DOMAIN f = {"tables", "config", "notes"}
    /\ f.tables \subseteq Tables
    /\ DOMAIN f.config = ConfigNames
    /\ f.config["USN"] \in Nat \cup {None}
    /\ f.config["auth_token"] \in Token \cup {None}
    /\ f.config["user"] \in Users \cup {None}
    /\ f.notes \in [owner : Users \cup {None}, upto : Nat]

\* The credential and the notes of a database are its user's.
Owned(f) ==
    /\ f.config["auth_token"] # None /\ f.config["user"] # None
          => f.config["auth_token"].user = f.config["user"]
    /\ f.notes.owner # None => f.config["user"] = f.notes.owner

Good(f) == IsFile(f) /\ Owned(f)

\* Writes that leave the user and the credential alone.
Names == {"notebooks", "notebooks_linked", "notes", "tasks", "reminders", "shared_notes",
          "config"}

Harmless == {Create(t) : t \in Names} \cup {Drop(t) : t \in Names}
            \cup {Insert(t) : t \in Names} \cup {Raise}
            \cup {Set(name, v) : name \in ConfigNames \ {"auth_token", "user"}, v \in Nat}

OwnWrites == {Set("auth_token", auth), Set("user", auth.user), Set("backend", cmd.backend)}

----------------------------------------------------------------------------
(* Tokens.                                                                 *)

\* What the service and a login give out are tokens.
LEMMA Tokens ==
    ASSUME NEW kind \in {"monolith", "refresh", "bundle"}, NEW u \in Users, NEW g \in Nat
    PROVE  IsToken([kind |-> kind, user |-> u, gen |-> g])
BY DEF IsToken, Token

\* A token is an account's.
LEMMA TokenUser == \A t \in Token : t.user \in Users /\ t.gen \in Nat
BY DEF Token

\* So are those of the command line.
LEMMA Given == GivenTokens \subseteq Token
BY CommandsAssumption DEF GivenTokens, Token

----------------------------------------------------------------------------
(* Writes.                                                                 *)

\* The tables of DB_SCHEMA.
LEMMA TableNames == Tables = Names
BY DEF Tables, DB_SCHEMA, Names

\* A harmless write keeps the owner of a database.
LEMMA HarmlessKeeps ==
    ASSUME NEW f, Good(f), NEW w \in Harmless
    PROVE  /\ Good(Do(f, w))
           /\ Do(f, w).config["auth_token"] = f.config["auth_token"]
           /\ Do(f, w).config["user"] = f.config["user"]
           /\ Do(f, w).notes.owner \in {None, f.notes.owner}
<1>1. CASE w \in {Set(name, v) : name \in ConfigNames \ {"auth_token", "user"}, v \in Nat}
  <2>1. PICK name \in ConfigNames \ {"auth_token", "user"}, v \in Nat : w = Set(name, v)
    BY <1>1
  <2>2. Do(f, w) = [f EXCEPT !.config[name] = v]
    BY <2>1 DEF Do, Set
  <2> QED
    BY <2>1, <2>2 DEF Good, IsFile, Owned, ConfigNames
<1>2. CASE w \in {Create(t) : t \in Names}
  <2>1. PICK t \in Names : w = Create(t)
    BY <1>2
  <2>2. Do(f, w) = [f EXCEPT !.tables = @ \cup {t}]
    BY <2>1 DEF Do, Create
  <2> QED
    BY <2>2, TableNames DEF Good, IsFile, Owned
<1>3. CASE w \in {Drop(t) : t \in Names}
  <2>1. PICK t \in Names : w = Drop(t)
    BY <1>3
  <2>2. Do(f, w) = [f EXCEPT !.tables = @ \ {t},
                             !.notes = IF t = "notes" THEN EmptyFile.notes ELSE @]
    BY <2>1 DEF Do, Drop
  <2> QED
    BY <2>2 DEF Good, IsFile, Owned, EmptyFile
<1>4. CASE w \in {Insert(t) : t \in Names} \cup {Raise}
  <2>1. Do(f, w) = f
    BY <1>4 DEF Do, Insert, Raise
  <2> QED
    BY <2>1
<1> QED
  BY <1>1, <1>2, <1>3, <1>4 DEF Harmless

\* The writes that init_db and upgrade_db are made of.
LEMMA HarmlessWrites ==
    /\ \A t \in Names : Create(t) \in Harmless /\ Drop(t) \in Harmless /\ Insert(t) \in Harmless
    /\ \A name \in ConfigNames \ {"auth_token", "user"}, v \in Nat : Set(name, v) \in Harmless
    /\ Raise \in Harmless
BY DEF Harmless

\* Short sequences.
LEMMA Short ==
    ASSUME NEW S, NEW a \in S, NEW b \in S, NEW c \in S
    PROVE  <<>> \in Seq(S) /\ <<a>> \in Seq(S) /\ <<a, b>> \in Seq(S) /\ <<a, b, c>> \in Seq(S)
OBVIOUS

\* The schema creates one table after the other.
LEMMA SchemaHarmless == CreateSchema \in Seq(Harmless)
<1>1. DB_SCHEMA \in Seq(Names)
  BY DEF DB_SCHEMA, Names
<1>2. \A i \in DOMAIN DB_SCHEMA : Create(DB_SCHEMA[i]) \in Harmless
  BY <1>1, HarmlessWrites
<1>3. DOMAIN DB_SCHEMA = 1 .. Len(DB_SCHEMA) /\ Len(DB_SCHEMA) \in Nat
  BY <1>1
<1> HIDE DEF DB_SCHEMA, Harmless
<1>4. CreateSchema \in [1 .. Len(DB_SCHEMA) -> Harmless]
  BY <1>2, <1>3 DEF CreateSchema
<1> QED
  BY <1>3, <1>4

\* upgrade_db is a sequence of harmless writes, from every version.
LEMMA UpgradeHarmless == ASSUME NEW v PROVE upgrade_db(v) \in Seq(Harmless)
<1>1. \A s, t \in Seq(Harmless) : s \o t \in Seq(Harmless)
  OBVIOUS
<1>2. \A s \in Seq(Harmless) : \A b : When(b, s) \in Seq(Harmless)
  BY Short DEF When
<1> DEFINE drops  == <<Drop("notebooks"), Drop("notes")>> \o CreateSchema
           linked == <<Create("notebooks_linked")>>
           tasks  == <<Set("last_connection_tasks", 0), Create("tasks"), Create("reminders")>>
           shared == <<Set("last_connection_shared_notes", 0), Create("shared_notes"),
                       Insert("notebooks")>>
           saved  == <<Set("DB_VERSION", CURRENT_DB_VERSION)>>
           resync == <<Set("USN", 0), Raise>>
<1>0. /\ Drop("notebooks") \in Harmless /\ Drop("notes") \in Harmless
      /\ Create("notebooks_linked") \in Harmless /\ Create("tasks") \in Harmless
      /\ Create("reminders") \in Harmless /\ Create("shared_notes") \in Harmless
      /\ Insert("notebooks") \in Harmless /\ Raise \in Harmless
  BY HarmlessWrites DEF Names
<1>3. drops \in Seq(Harmless)
  <2>1. <<Drop("notebooks"), Drop("notes")>> \in Seq(Harmless)
    BY <1>0, Short
  <2> QED
    BY <1>1, <2>1, SchemaHarmless
<1>4. linked \in Seq(Harmless)
  BY <1>0, Short
<1>5. /\ Set("last_connection_tasks", 0) \in Harmless
      /\ Set("last_connection_shared_notes", 0) \in Harmless
      /\ Set("DB_VERSION", CURRENT_DB_VERSION) \in Harmless
      /\ Set("USN", 0) \in Harmless
  BY HarmlessWrites DEF ConfigNames, CURRENT_DB_VERSION
<1>6. tasks \in Seq(Harmless) /\ shared \in Seq(Harmless)
  BY <1>0, <1>5, Short
<1>7. saved \in Seq(Harmless) /\ resync \in Seq(Harmless)
  BY <1>0, <1>5, Short
<1>8. upgrade_db(v) = When(v = 0, drops) \o When(v < 4, linked) \o When(v < 6, tasks)
                      \o When(v < 7, shared) \o saved \o When(v = 0, resync)
  BY DEF upgrade_db
<1> HIDE DEF drops, linked, tasks, shared, saved, resync
<1>9. /\ When(v = 0, drops) \in Seq(Harmless) /\ When(v < 4, linked) \in Seq(Harmless)
      /\ When(v < 6, tasks) \in Seq(Harmless) /\ When(v < 7, shared) \in Seq(Harmless)
      /\ When(v = 0, resync) \in Seq(Harmless)
  BY <1>2, <1>3, <1>4, <1>6, <1>7
<1> QED
  BY <1>1, <1>7, <1>8, <1>9

\* What init_db writes is harmless but for the credential, its user and the
\* backend.
LEMMA InitWritesOwn == InitWrites(auth, auth.user, cmd.backend) \in Seq(Harmless \cup OwnWrites)
<1> DEFINE S == Harmless \cup OwnWrites
           values == <<Set("DB_VERSION", CURRENT_DB_VERSION), Set("USN", 0),
                       Set("auth_token", auth), Set("user", auth.user),
                       Set("backend", cmd.backend), Set("last_connection_tasks", 0),
                       Set("last_connection_shared_notes", 0), Insert("notebooks")>>
<1>1. CreateSchema \in Seq(S)
  BY SchemaHarmless
<1>2. /\ Set("DB_VERSION", CURRENT_DB_VERSION) \in S /\ Set("USN", 0) \in S
      /\ Set("last_connection_tasks", 0) \in S
      /\ Set("last_connection_shared_notes", 0) \in S
      /\ Insert("notebooks") \in S
  BY HarmlessWrites DEF ConfigNames, CURRENT_DB_VERSION, Names
<1>3. /\ Set("auth_token", auth) \in S /\ Set("user", auth.user) \in S
      /\ Set("backend", cmd.backend) \in S
  BY DEF OwnWrites
<1> HIDE DEF S
<1>4. values \in Seq(S)
  BY <1>2, <1>3
<1>5. InitWrites(auth, auth.user, cmd.backend) = CreateSchema \o values
  BY DEF InitWrites
<1> HIDE DEF values
<1> QED
  BY <1>1, <1>4, <1>5 DEF S

----------------------------------------------------------------------------
(* The invariant.                                                          *)

Renewing == {"resolve", "refresh", "verify", "persist"}
Using    == {"client", "checkUser", "scan", "saveUSN", "sharedNotes", "tasks"}
Other    == {"checkVersion", "write", "initialize", "create", "backend", "stored", "login",
             "storeToken"}

\* Which command is where.
StepOK ==
    /\ pc \in Renewing \cup Using \cup Other \cup {"idle"}
    /\ pc # "idle" => cmd.name \in {"init_db", "reauth", "sync"}
    /\ pc \in {"initialize", "create"} => cmd.name = "init_db"
    /\ pc \in {"checkVersion", "backend", "checkUser", "storeToken"} => cmd.name # "init_db"
    /\ pc \in {"stored", "scan", "saveUSN", "sharedNotes", "tasks"} => cmd.name = "sync"
    /\ pc = "login" => cmd.name # "sync"

\* The file is its owner's, and is there when reauth and sync work on it.
FileOK ==
    /\ file # None => Good(file)
    /\ pc = "write" \/ (pc # "idle" /\ cmd.name # "init_db") => Good(file)

\* A credential is in hand, or about to be looked up.
TokenOK ==
    /\ token \in Token \cup {None} /\ auth \in Token \cup {None}
    /\ \/ pc \in {"idle", "login", "stored"}
       \/ pc \in {"checkVersion", "backend", "write"} /\ cmd.name # "init_db" /\ cmd.token = None
       \/ IsToken(auth)
    /\ pc \in {"idle", "checkVersion", "backend", "stored", "login", "resolve", "refresh"}
          => ~ updated
    /\ pc = "write" /\ cmd.name # "init_db" => ~ updated

\* What is left to write keeps the owner, or is what init_db writes to a new
\* file.
WritesOK ==
    /\ pc = "write" /\ cmd.name # "init_db" => writes \in Seq(Harmless)
    /\ pc = "saveUSN" => writes \in Seq(Harmless) /\ writes # <<>>
    /\ pc = "write" /\ cmd.name = "init_db" =>
          /\ writes \in Seq(Harmless \cup OwnWrites)
          /\ file.notes.owner = None
          /\ file.config["auth_token"] \in {None, auth}
          /\ file.config["user"] \in {None, auth.user}

\* What sync with the stored credential has in hand is stored, or newer and
\* of the same account; what is stored for an account was compared with it.
StoredOK ==
    /\ pc \in Renewing /\ cmd.name = "sync" /\ cmd.token = None =>
          /\ ~ updated => file.config["auth_token"] = auth
          /\ file.config["user"] # None => auth.user = file.config["user"]
    /\ pc \in Using /\ cmd.name = "sync" /\ cmd.token = None => file.config["auth_token"] = auth
    /\ pc \in {"storeToken", "scan"} => file.config["user"] = auth.user

IInv == StepOK /\ FileOK /\ TokenOK /\ WritesOK /\ StoredOK

\* The service knows one generation of every account.
RefreshOK == refreshGen \in [Users -> 0 .. MaxGen]

\* A command that ends leaves only the file.
LEMMA WhenEnded ==
    ASSUME Ended, file' # None => Good(file')
    PROVE  IInv'
BY DEF Ended, StopLogin, StopWaitingThreads,
   IInv, StepOK, FileOK, TokenOK, WritesOK, StoredOK, Renewing, Using, Other

\* A database of any older version belongs to one account.
LEMMA InitInv == Init => IInv
<1> SUFFICES ASSUME Init PROVE IInv
  OBVIOUS
<1>1. file # None => Good(file)
  <2> SUFFICES ASSUME NEW version \in 0 .. 6, NEW u \in Users,
                      file = OldFile(version, 1, [kind |-> "monolith", user |-> u, gen |-> 0], u)
               PROVE  Good(file)
    BY DEF Init
  <2>1. DOMAIN file.config = ConfigNames /\ DOMAIN file.notes = {"owner", "upto"}
    BY DEF OldFile, EmptyFile
  <2>2. /\ file.config["auth_token"] = [kind |-> "monolith", user |-> u, gen |-> 0]
        /\ file.config["user"] = u
        /\ file.config["USN"] = 1
        /\ file.notes = [owner |-> u, upto |-> 1]
    BY DEF OldFile, EmptyFile, ConfigNames
  <2>3. DOMAIN file = {"tables", "config", "notes"} /\ file.tables \subseteq Tables
    BY TableNames DEF OldFile, Names
  <2>4. IsToken(file.config["auth_token"])
    BY <2>2, Tokens
  <2>5. file.notes \in [owner : Users \cup {None}, upto : Nat]
    BY <2>2
  <2> QED
    BY <2>1, <2>2, <2>3, <2>4, <2>5 DEF Good, IsFile, Owned, IsToken
<1> QED
  BY <1>1 DEF Init, LoginOff,
     IInv, StepOK, FileOK, TokenOK, WritesOK, StoredOK, Renewing, Using, Other

\* init-db begins.
LEMMA StartsInit == ASSUME IInv, InitDb PROVE IInv'
BY Given DEF InitDb, Start, Credentials, IsToken, login,
   IInv, StepOK, FileOK, TokenOK, WritesOK, StoredOK, Renewing, Using, Other

\* reauth begins.
LEMMA StartsReauth == ASSUME IInv, Reauth PROVE IInv'
BY Given DEF Reauth, Start, Credentials, IsToken, login,
   IInv, StepOK, FileOK, TokenOK, WritesOK, StoredOK, Renewing, Using, Other

\* sync begins.
LEMMA StartsSync == ASSUME IInv, Sync PROVE IInv'
BY Given DEF Sync, Start, IsToken, login,
   IInv, StepOK, FileOK, TokenOK, WritesOK, StoredOK, Renewing, Using, Other

\* The version is checked, and the writes of an upgrade are harmless.
LEMMA VersionChecked == ASSUME IInv, CheckVersion PROVE IInv'
<1>1. CASE Exit
  BY <1>1, WhenEnded DEF Exit, IInv, FileOK
<1>2. CASE Continue("backend")
  BY <1>2 DEF CheckVersion, Continue, login,
     IInv, StepOK, FileOK, TokenOK, WritesOK, StoredOK, Renewing, Using, Other
<1>3. CASE \E v : /\ writes' = upgrade_db(v) /\ pc' = "write"
                  /\ UNCHANGED <<file, refreshGen, cmd, auth, updated, bounds, login>>
  BY <1>3, UpgradeHarmless DEF CheckVersion, login,
     IInv, StepOK, FileOK, TokenOK, WritesOK, StoredOK, Renewing, Using, Other
<1> QED
  BY <1>1, <1>2, <1>3 DEF CheckVersion

\* A write to a new file keeps what init_db knows of it.
LEMMA OwnKeeps ==
    ASSUME NEW f, Good(f), IsToken(auth), f.notes.owner = None,
           f.config["auth_token"] \in {None, auth}, f.config["user"] \in {None, auth.user},
           NEW w \in Harmless \cup OwnWrites
    PROVE  /\ Good(Do(f, w))
           /\ Do(f, w).notes.owner = None
           /\ Do(f, w).config["auth_token"] \in {None, auth}
           /\ Do(f, w).config["user"] \in {None, auth.user}
<1>1. CASE w \in Harmless
  BY <1>1, HarmlessKeeps
<1>2. CASE w = Set("auth_token", auth)
  <2>1. Do(f, w) = [f EXCEPT !.config["auth_token"] = auth]
    BY <1>2 DEF Do, Set
  <2> QED
    BY <2>1, TokenUser DEF Good, IsFile, Owned, IsToken, ConfigNames
<1>3. CASE w = Set("user", auth.user)
  <2>1. Do(f, w) = [f EXCEPT !.config["user"] = auth.user]
    BY <1>3 DEF Do, Set
  <2> QED
    BY <2>1, TokenUser DEF Good, IsFile, Owned, IsToken, ConfigNames
<1>4. CASE w = Set("backend", cmd.backend)
  <2>1. Do(f, w) = [f EXCEPT !.config["backend"] = cmd.backend]
    BY <1>4 DEF Do, Set
  <2> QED
    BY <2>1, TokenUser DEF Good, IsFile, Owned, IsToken, ConfigNames
<1> QED
  BY <1>1, <1>2, <1>3, <1>4 DEF OwnWrites

\* One write after the other.
LEMMA Writes == ASSUME IInv, Write PROVE IInv'
<1>1. CASE Exit
  BY <1>1, WhenEnded DEF Exit, IInv, FileOK
<1>2. CASE cmd.name # "init_db" /\ Continue("backend")
  BY <1>2 DEF Write, Continue, login,
     IInv, StepOK, FileOK, TokenOK, WritesOK, StoredOK, Renewing, Using, Other
<1>3. CASE /\ writes # <<>> /\ file' = Do(file, Head(writes)) /\ writes' = Tail(writes)
           /\ UNCHANGED <<refreshGen, cmd, pc, auth, updated, bounds, login>>
  <2>1. pc = "write" /\ Good(file)
    BY DEF Write, IInv, FileOK
  <2>2. CASE cmd.name # "init_db"
    <3>1. Head(writes) \in Harmless /\ writes' \in Seq(Harmless)
      BY <1>3, <2>1, <2>2 DEF IInv, WritesOK
    <3>2. Good(file')
      BY <1>3, <2>1, <3>1, HarmlessKeeps
    <3> QED
      BY <1>3, <2>1, <2>2, <3>1, <3>2 DEF login,
         IInv, StepOK, FileOK, TokenOK, WritesOK, StoredOK, Renewing, Using, Other
  <2>3. CASE cmd.name = "init_db"
    <3>1. /\ Head(writes) \in Harmless \cup OwnWrites
          /\ writes' \in Seq(Harmless \cup OwnWrites)
      BY <1>3, <2>1, <2>3 DEF IInv, WritesOK
    <3>2. IsToken(auth)
      BY <2>1, <2>3 DEF IInv, TokenOK
    <3>3. /\ Good(file')
          /\ file'.notes.owner = None
          /\ file'.config["auth_token"] \in {None, auth}
          /\ file'.config["user"] \in {None, auth.user}
      BY <1>3, <2>1, <2>3, <3>1, <3>2, OwnKeeps DEF IInv, WritesOK
    <3>4. OwnWrites' = OwnWrites
      BY <1>3 DEF OwnWrites
    <3> QED
      BY <1>3, <2>1, <2>3, <3>1, <3>2, <3>3, <3>4 DEF login,
         IInv, StepOK, FileOK, TokenOK, WritesOK, StoredOK, Renewing, Using, Other
  <2> QED
    BY <2>2, <2>3
<1> QED
  BY <1>1, <1>2, <1>3 DEF Write

\* The old file is removed.
LEMMA StorageInitialized == ASSUME IInv, InitializeStorage PROVE IInv'
<1>1. CASE Exit
  BY <1>1, WhenEnded DEF Exit, IInv, FileOK
<1>2. CASE ~ Exit
  BY <1>2 DEF InitializeStorage, Exit, login,
     IInv, StepOK, FileOK, TokenOK, WritesOK, StoredOK, Renewing, Using, Other
<1> QED
  BY <1>1, <1>2

\* A new file has neither credential nor notes.
LEMMA FileCreated == ASSUME IInv, CreateFile PROVE IInv'
<1>1. /\ Good(EmptyFile) /\ EmptyFile.notes.owner = None
      /\ EmptyFile.config["auth_token"] = None /\ EmptyFile.config["user"] = None
  BY DEF Good, IsFile, Owned, EmptyFile, ConfigNames
<1>2. OwnWrites' = OwnWrites
  BY DEF CreateFile, OwnWrites
<1>3. InitWrites(auth, auth.user, cmd.backend) \in Seq(Harmless \cup OwnWrites)
  BY InitWritesOwn
<1> QED
  BY <1>1, <1>2, <1>3 DEF CreateFile, login,
     IInv, StepOK, FileOK, TokenOK, WritesOK, StoredOK, Renewing, Using, Other

\* The backend is read from the file.
LEMMA BackendRead == ASSUME IInv, Backend PROVE IInv'
<1>1. CASE Exit
  BY <1>1, WhenEnded DEF Exit, IInv, FileOK
<1>2. CASE ~ Exit
  BY <1>2 DEF Backend, Continue, login,
     IInv, StepOK, FileOK, TokenOK, WritesOK, StoredOK, Renewing, Using, Other
<1> QED
  BY <1>1, <1>2

\* The stored credential is its user's.
LEMMA TokenStored == ASSUME IInv, StoredToken PROVE IInv'
<1>1. CASE Exit
  BY <1>1, WhenEnded DEF Exit, IInv, FileOK
<1>2. CASE ~ Exit
  BY <1>2 DEF StoredToken, Good, IsFile, Owned, IsToken, login,
     IInv, StepOK, FileOK, TokenOK, WritesOK, StoredOK, Renewing, Using, Other
<1> QED
  BY <1>1, <1>2

\* The session that is imported is one of the account that was asked for.
LEMMA ChosenSession ==
    ASSUME NEW u
    PROVE  Chosen(u) = None \/ (Chosen(u).user \in Users /\ u \in {None, Chosen(u).user})
<1> DEFINE matching == {i \in DOMAIN DesktopUsers : u \in {None, DesktopUsers[i].user}}
<1>1. CASE matching = {}
  BY <1>1 DEF Chosen
<1>2. CASE matching # {}
  <2>1. DOMAIN DesktopUsers \subseteq Nat
    BY LoginAssumption
  <2>2. Min(matching) \in matching
    BY <1>2, <2>1, MinOfNats
  <2>3. \A i \in DOMAIN DesktopUsers : DesktopUsers[i].user \in Users
    <3> DEFINE S == [user : Users, stored : BOOLEAN, key : BOOLEAN, jwt_refresh : BOOLEAN]
    <3>1. DesktopUsers \in Seq(S) /\ \A session \in S : session.user \in Users
      BY LoginAssumption
    <3> HIDE DEF S
    <3> QED
      BY <3>1
  <2> QED
    BY <1>2, <2>2, <2>3 DEF Chosen
<1> QED
  BY <1>1, <1>2

\* Whatever the login obtains is a token.
LEMMA LogsIn == ASSUME IInv, RefreshOK, LoginStep PROVE IInv'
<1>1. token' \in Token \cup {None}
  <2>1. token \in Token \cup {None}
    BY DEF IInv, TokenOK
  <2>2. LoginProgram(LoginBackend, cmd.how, refreshGen)
    BY DEF LoginStep
  <2>3. CASE GetAuthToken(LoginBackend, cmd.how)
    BY <2>1, <2>3 DEF GetAuthToken, Goto, Over
  <2>4. CASE Password(cmd.how)
    BY <2>1, <2>4, Tokens DEF Password, Goto, Over, IsToken
  <2>5. CASE SecondFactor
    BY <2>1, <2>5, Tokens DEF SecondFactor, Goto, Over, IsToken
  <2>6. CASE Import(cmd.how, refreshGen)
    <3>1. CASE Over(None)
      BY <3>1 DEF Over
    <3>2. CASE ~ Over(None)
      <4>1. Chosen(cmd.how.oauth_en_user).user \in Users
        BY <2>6, <3>2, ChosenSession DEF Import
      <4>2. refreshGen[Chosen(cmd.how.oauth_en_user).user] \in Nat
        BY <4>1, CommandsAssumption DEF RefreshOK
      <4> QED
        BY <2>6, <3>2, <4>1, <4>2, Tokens DEF Import, Over, IsToken
    <3> QED
      BY <3>1, <3>2
  <2>7. CASE Prompt \/ Authorize
    BY <2>1, <2>7 DEF Prompt, Authorize, Goto, Over
  <2>8. CASE StopWaiting \/ Shutdown
    BY <2>1, <2>8 DEF StopWaiting, Shutdown
  <2>9. CASE Answer
    BY <2>1, <2>9 DEF Answer, Goto, Over
  <2>10. CASE Exchange(refreshGen)
    <3>1. \A u \in Users : refreshGen[u] \in Nat
      BY CommandsAssumption DEF RefreshOK
    <3> QED
      BY <2>1, <2>10, <3>1, Tokens DEF Exchange, Goto, Over, IsToken
  <2> QED
    BY <2>2, <2>3, <2>4, <2>5, <2>6, <2>7, <2>8, <2>9, <2>10 DEF LoginProgram
<1> QED
  BY <1>1 DEF LoginStep, command, bounds,
     IInv, StepOK, FileOK, TokenOK, WritesOK, StoredOK, Renewing, Using, Other

\* The service, the browser and the user do not touch the outcome.
LEMMA LoginWaits == ASSUME IInv, LoginInputs \/ LoginServes PROVE IInv'
BY DEF LoginInputs, LoginServes, LoginInput, Connect, Paste, Serve, command, bounds,
   IInv, StepOK, FileOK, TokenOK, WritesOK, StoredOK, Renewing, Using, Other

\* The login is over.
LEMMA LoginOver == ASSUME IInv, LoggedIn PROVE IInv'
<1>1. CASE Exit
  BY <1>1, WhenEnded DEF Exit, IInv, FileOK
<1>2. CASE ~ Exit
  BY <1>2 DEF LoggedIn, StopLogin, StopWaitingThreads, IsToken,
     IInv, StepOK, FileOK, TokenOK, WritesOK, StoredOK, Renewing, Using, Other
<1> QED
  BY <1>1, <1>2

\* A token is used as it is, or renewed.
LEMMA Resolved == ASSUME IInv, Resolve PROVE IInv'
<1>1. CASE Exit
  BY <1>1, WhenEnded DEF Exit, IInv, FileOK
<1>2. CASE ~ Exit
  BY <1>2 DEF Resolve, Continue, login,
     IInv, StepOK, FileOK, TokenOK, WritesOK, StoredOK, Renewing, Using, Other
<1> QED
  BY <1>1, <1>2

\* A renewed token is of the same account.
LEMMA Refreshed == ASSUME IInv, Refresh PROVE IInv'
<1>1. CASE Ended /\ UNCHANGED file
  BY <1>1, WhenEnded DEF IInv, FileOK
<1>2. CASE /\ \E gen \in {auth.gen, auth.gen + 1} \cap 0 .. MaxGen :
                 auth' = [auth EXCEPT !.kind = "bundle", !.gen = gen]
           /\ updated' = TRUE
           /\ pc' = "verify" /\ UNCHANGED <<cmd, writes, login, file, bounds>>
  <2>1. IsToken(auth)
    BY DEF Refresh, IInv, TokenOK
  <2>2. PICK gen \in {auth.gen, auth.gen + 1} \cap 0 .. MaxGen :
           auth' = [auth EXCEPT !.kind = "bundle", !.gen = gen]
    BY <1>2 DEF Refresh
  <2>3. gen \in Nat
    BY CommandsAssumption
  <2>4. IsToken(auth') /\ auth'.user = auth.user
    BY <2>1, <2>2, <2>3 DEF IsToken, Token
  <2> QED
    BY <1>2, <2>4 DEF Refresh, IsToken, login,
       IInv, StepOK, FileOK, TokenOK, WritesOK, StoredOK, Renewing, Using, Other
<1> QED
  BY <1>1, <1>2 DEF Refresh, Exit

\* The service knows the token.
LEMMA Verified == ASSUME IInv, Verify PROVE IInv'
<1>1. CASE Exit
  BY <1>1, WhenEnded DEF Exit, IInv, FileOK
<1>2. CASE ~ Exit
  BY <1>2 DEF Verify, Continue, login,
     IInv, StepOK, FileOK, TokenOK, WritesOK, StoredOK, Renewing, Using, Other
<1> QED
  BY <1>1, <1>2

\* sync stores a renewed token over the one of the same account.
LEMMA Persisted == ASSUME IInv, Persist PROVE IInv'
<1>1. CASE Continue("client") /\ ~ (cmd.name = "sync" /\ updated /\ cmd.token = None)
  BY <1>1 DEF Persist, Continue, login,
     IInv, StepOK, FileOK, TokenOK, WritesOK, StoredOK, Renewing, Using, Other
<1>2. CASE cmd.name = "sync" /\ updated /\ cmd.token = None
  <2>1. /\ file' = set_config_value(file, "auth_token", auth)
        /\ pc' = "client"
        /\ UNCHANGED <<refreshGen, cmd, auth, updated, writes, bounds, login>>
    BY <1>2 DEF Persist
  <2>2. file' = [file EXCEPT !.config["auth_token"] = auth]
    BY <2>1 DEF set_config_value, Do, Set
  <2>3. pc = "persist" /\ Good(file) /\ IsToken(auth)
    BY <1>2 DEF Persist, IInv, StepOK, FileOK, TokenOK, WritesOK, StoredOK, Renewing, Using, Other
  <2>4. file.config["user"] # None => auth.user = file.config["user"]
    BY <1>2, <2>3 DEF IInv, StoredOK, Renewing
  <2>5. Good(file') /\ file'.config["auth_token"] = auth
    BY <2>2, <2>3, <2>4 DEF Good, IsFile, Owned, IsToken, ConfigNames
  <2> QED
    BY <1>2, <2>1, <2>3, <2>5 DEF login,
       IInv, StepOK, FileOK, TokenOK, WritesOK, StoredOK, Renewing, Using, Other
<1> QED
  BY <1>1, <1>2 DEF Persist

\* The client is made.
LEMMA Connected == ASSUME IInv, SyncClient PROVE IInv'
<1>1. CASE Exit
  BY <1>1, WhenEnded DEF Exit, IInv, FileOK
<1>2. CASE ~ Exit
  BY <1>2 DEF SyncClient, Continue, login,
     IInv, StepOK, FileOK, TokenOK, WritesOK, StoredOK, Renewing, Using, Other
<1> QED
  BY <1>1, <1>2

\* The account is that of the database.
LEMMA UserChecked == ASSUME IInv, CheckUser PROVE IInv'
<1>1. CASE Exit
  BY <1>1, WhenEnded DEF Exit, IInv, FileOK
<1>2. CASE ~ Exit
  BY <1>2 DEF CheckUser, Continue, login,
     IInv, StepOK, FileOK, TokenOK, WritesOK, StoredOK, Renewing, Using, Other
<1> QED
  BY <1>1, <1>2

\* reauth stores the credential of the user it has compared.
LEMMA TokenReplaced == ASSUME IInv, StoreToken PROVE IInv'
<1>1. file' = [file EXCEPT !.config["auth_token"] = auth]
  BY DEF StoreToken, set_config_value, Do, Set
<1>2. Good(file) /\ IsToken(auth) /\ file.config["user"] = auth.user
  BY DEF StoreToken, IInv, StepOK, FileOK, TokenOK, WritesOK, StoredOK, Renewing, Using, Other
<1>3. Good(file')
  BY <1>1, <1>2 DEF Good, IsFile, Owned, IsToken, ConfigNames
<1> QED
  BY <1>3, WhenEnded DEF StoreToken

\* The notes that are stored belong to the user that was compared.
LEMMA Scanned == ASSUME IInv, Scan PROVE IInv'
<1>1. CASE Exit
  BY <1>1, WhenEnded DEF Exit, IInv, FileOK
<1>2. CASE ~ Exit
  <2>1. PICK count \in file.config["USN"] .. MaxUSN :
           /\ file' = [file EXCEPT !.notes =
                          [owner |-> auth.user,
                           upto  |-> IF @.upto >= file.config["USN"] THEN count ELSE @.upto]]
           /\ writes' = <<Set("USN", count)>>
    BY <1>2 DEF Scan
  <2>2. pc = "scan" /\ Good(file) /\ IsToken(auth) /\ file.config["user"] = auth.user
    BY DEF Scan, IInv, StepOK, FileOK, TokenOK, WritesOK, StoredOK, Renewing, Using, Other
  <2>3. count \in Nat
    BY <1>2, <2>2, CommandsAssumption DEF Scan, Good, IsFile
  <2>4. Set("USN", count) \in Harmless
    BY <2>3, HarmlessWrites DEF ConfigNames
  <2>5. writes' \in Seq(Harmless) /\ writes' # <<>>
    BY <2>1, <2>4, Short
  <2>6. /\ Good(file') /\ file'.config["user"] = auth.user
        /\ file'.config["auth_token"] = file.config["auth_token"]
    BY <2>1, <2>2, <2>3, TokenUser DEF Good, IsFile, Owned, IsToken
  <2> QED
    BY <1>2, <2>2, <2>5, <2>6 DEF Scan, login,
       IInv, StepOK, FileOK, TokenOK, WritesOK, StoredOK, Renewing, Using, Other
<1> QED
  BY <1>1, <1>2

\* Saving the number changes nothing else.
LEMMA USNSaved == ASSUME IInv, SaveUSN PROVE IInv'
<1>1. pc = "saveUSN" /\ Good(file) /\ Head(writes) \in Harmless
  BY DEF SaveUSN, IInv, StepOK, FileOK, TokenOK, WritesOK, StoredOK, Renewing, Using, Other
<1>2. Good(file') /\ file'.config["auth_token"] = file.config["auth_token"]
  BY <1>1, HarmlessKeeps DEF SaveUSN
<1>3. CASE Ended
  BY <1>2, <1>3, WhenEnded
<1>4. CASE ~ Ended
  BY <1>1, <1>2, <1>4 DEF SaveUSN, login,
     IInv, StepOK, FileOK, TokenOK, WritesOK, StoredOK, Renewing, Using, Other
<1> QED
  BY <1>3, <1>4

\* The second protocol reads its cursors.
LEMMA SharedNotesRead == ASSUME IInv, SharedNotes PROVE IInv'
<1>1. CASE Exit
  BY <1>1, WhenEnded DEF Exit, IInv, FileOK
<1>2. CASE ~ Exit
  BY <1>2 DEF SharedNotes, Continue, login,
     IInv, StepOK, FileOK, TokenOK, WritesOK, StoredOK, Renewing, Using, Other
<1> QED
  BY <1>1, <1>2

\* A command may die anywhere.
LEMMA Dies == ASSUME IInv, Die \/ TasksPhase PROVE IInv'
BY WhenEnded DEF Die, TasksPhase, Exit, IInv, FileOK

\* A stuttering step.
LEMMA Stutters == ASSUME IInv, UNCHANGED vars PROVE IInv'
<1>1. OwnWrites' = OwnWrites
  BY DEF OwnWrites, vars, command
<1> QED
  BY <1>1 DEF vars, command, bounds, login,
     IInv, StepOK, FileOK, TokenOK, WritesOK, StoredOK, Renewing, Using, Other

\* Generations are only ever raised, up to the bound.
LEMMA RefreshInv == Spec => []RefreshOK
<1>1. Init => RefreshOK
  BY CommandsAssumption DEF Init, RefreshOK
<1>2. ASSUME RefreshOK, [Next]_vars PROVE RefreshOK'
  <2>1. CASE Refresh
    BY <1>2, <2>1 DEF Refresh, Exit, RefreshOK
  <2>2. CASE UNCHANGED refreshGen
    BY <1>2, <2>2 DEF RefreshOK
  <2>3. Refresh \/ UNCHANGED refreshGen
    BY <1>2 DEF Next, Step, vars, Start, InitDb, Reauth, Sync, Continue, Exit, CheckVersion,
       Write, InitializeStorage, CreateFile, Backend, StoredToken, LoginStep, LoginInputs,
       LoginServes, LoggedIn, Resolve, Verify, Persist, SyncClient, CheckUser, StoreToken,
       Scan, SaveUSN, SharedNotes, TasksPhase, Die
  <2> QED
    BY <2>1, <2>2, <2>3
<1> QED
  BY <1>1, <1>2, PTL DEF Spec

\* IInv holds in every reachable state of Commands, for any accounts and
\* sessions and any number of commands, deaths and renewed tokens.
THEOREM Invariance == Spec => []IInv
<1>1. ASSUME IInv, RefreshOK, [Next]_vars PROVE IInv'
  <2>1. CASE CheckVersion \/ Write \/ InitializeStorage \/ CreateFile \/ Backend
    BY <1>1, <2>1, VersionChecked, Writes, StorageInitialized, FileCreated, BackendRead
  <2>2. CASE StoredToken \/ LoginStep \/ LoggedIn \/ LoginServes \/ LoginInputs
    BY <1>1, <2>2, TokenStored, LogsIn, LoginOver, LoginWaits
  <2>3. CASE Resolve \/ Refresh \/ Verify \/ Persist \/ SyncClient
    BY <1>1, <2>3, Resolved, Refreshed, Verified, Persisted, Connected
  <2>4. CASE CheckUser \/ StoreToken \/ Scan \/ SaveUSN \/ SharedNotes
    BY <1>1, <2>4, UserChecked, TokenReplaced, Scanned, USNSaved, SharedNotesRead
  <2>5. CASE TasksPhase \/ Die \/ UNCHANGED vars
    BY <1>1, <2>5, Dies, Stutters
  <2>6. CASE InitDb \/ Reauth \/ Sync
    BY <1>1, <2>6, StartsInit, StartsReauth, StartsSync
  <2> QED
    BY <1>1, <2>1, <2>2, <2>3, <2>4, <2>5, <2>6 DEF Next, Step
<1> QED
  BY <1>1, InitInv, RefreshInv, PTL DEF Spec

----------------------------------------------------------------------------
(* What it gives.                                                          *)

\* OneOwner: whatever is given with --token and whoever logs in, a database
\* holds the credential and the notes of its user alone.
THEOREM KeepsOneOwner == Spec => []OneOwner
<1>1. IInv => OneOwner
  BY DEF IInv, FileOK, Good, Owned, OneOwner
<1> QED
  BY <1>1, Invariance, PTL

\* What has been renewed is the service's latest.
RenewedOK ==
    /\ updated => auth.user \in Users /\ auth.gen = refreshGen[auth.user]
    /\ pc = "storeToken" => cmd.name = "reauth"

\* Nobody renews a credential but the command at work.
LEMMA RenewedInv == Spec => []RenewedOK
<1>1. Init => RenewedOK
  BY DEF Init, RenewedOK
<1>2. ASSUME IInv, RefreshOK, RenewedOK, [Next]_vars PROVE RenewedOK'
  <2> USE DEF RenewedOK
  <2>1. CASE Ended
    BY <2>1 DEF Ended
  <2>2. CASE InitDb \/ Reauth \/ Sync
    BY <1>2, <2>2 DEF InitDb, Reauth, Sync, Start, IInv, TokenOK
  <2>3. CASE CheckVersion \/ Write \/ InitializeStorage \/ CreateFile
    BY <1>2, <2>1, <2>3 DEF CheckVersion, Write, InitializeStorage, CreateFile, Continue, Exit
  <2>4. CASE Backend \/ StoredToken \/ LoginStep \/ LoggedIn \/ LoginServes \/ LoginInputs
    BY <1>2, <2>1, <2>4 DEF Backend, StoredToken, LoginStep, LoggedIn, LoginServes, LoginInputs,
                            command, Continue, Exit, IInv, TokenOK
  <2>5. CASE Refresh
    <3>1. ASSUME ~ Ended
          PROVE  \E gen : /\ refreshGen' = [refreshGen EXCEPT ![auth.user] = gen]
                          /\ auth' = [auth EXCEPT !.kind = "bundle", !.gen = gen]
                          /\ pc' = "verify" /\ UNCHANGED cmd
      BY <2>5, <3>1 DEF Refresh, Exit
    <3>2. auth \in Token
      BY <1>2, <2>5 DEF Refresh, IInv, TokenOK, IsToken
    <3>3. \A gen : LET t == [auth EXCEPT !.kind = "bundle", !.gen = gen] IN
                   t.user = auth.user /\ t.user \in Users /\ t.gen = gen
      BY <3>2 DEF Token
    <3>4. CASE ~ Ended
      <4>1. PICK gen : /\ refreshGen' = [refreshGen EXCEPT ![auth.user] = gen]
                       /\ auth' = [auth EXCEPT !.kind = "bundle", !.gen = gen]
                       /\ pc' = "verify"
        BY <3>1, <3>4
      <4>2. auth'.user = auth.user /\ auth.user \in Users /\ auth'.gen = gen
        BY <3>3, <4>1
      <4>3. refreshGen'[auth.user] = gen
        BY <1>2, <4>1, <4>2 DEF RefreshOK
      <4> QED
        BY <4>1, <4>2, <4>3
    <3> QED
      BY <2>1, <3>4
  <2>6. CASE Resolve \/ Verify \/ Persist \/ SyncClient
    BY <1>2, <2>1, <2>6 DEF Resolve, Verify, Persist, SyncClient, Continue, Exit
  <2>7. CASE CheckUser \/ StoreToken
    BY <1>2, <2>1, <2>7 DEF CheckUser, StoreToken, Continue, Exit
  <2>8. CASE Scan \/ SaveUSN \/ SharedNotes \/ TasksPhase \/ Die
    BY <1>2, <2>1, <2>8 DEF Scan, SaveUSN, SharedNotes, TasksPhase, Die, Continue, Exit
  <2>9. CASE UNCHANGED vars
    BY <1>2, <2>9 DEF vars, command
  <2> QED
    BY <1>2, <2>2, <2>3, <2>4, <2>5, <2>6, <2>7, <2>8, <2>9 DEF Next, Step
<1> QED
  BY <1>1, <1>2, Invariance, RefreshInv, PTL DEF Spec

\* AccessKept: once a sync with the stored credential has saved what it
\* renewed, the database holds the refresh token that the service accepts,
\* whatever fails then.
THEOREM KeepsAccess == Spec => []AccessKept
<1>1. IInv /\ RenewedOK => AccessKept
  BY DEF IInv, StepOK, TokenOK, StoredOK, RenewedOK, Renewing, Using, Other, AccessKept
<1> QED
  BY <1>1, Invariance, RenewedInv, PTL

----------------------------------------------------------------------------
(* The login.                                                              *)

\* Which step belongs to which way of logging in: with a china backend a
\* password, with "import" a session, otherwise a browser.
WayOK ==
    /\ lpc \in {"password", "secondFactor", "noTerminal"} => LoginBackend = "china"
    /\ lpc \in {"prompt", "authorize", "wait", "shutdown", "answer", "exchange"}
          => cmd.how.oauth_method # "import"
    /\ RightAccount

LoginOK == LoginTypeOK /\ (lpc # "off" => pc = "login") /\ (pc = "login" => WayOK)

\* A login that is over or has not begun.
LEMMA NoLogin == ASSUME LoginTypeOK', lpc' = "off" PROVE LoginOK'
BY DEF LoginOK, WayOK, RightAccount

LEMMA LoginStops == ASSUME StopLogin PROVE LoginOK'
<1>1. LoginTypeOK' /\ lpc' = "off"
  BY DEF StopLogin, StopWaitingThreads, LoginTypeOK
<1> QED
  BY <1>1, NoLogin

LEMMA LoginUntouched == ASSUME LoginOK, pc # "login", UNCHANGED login PROVE LoginOK'
<1>1. LoginTypeOK' /\ lpc' = "off"
  BY DEF LoginOK, login, LoginTypeOK
<1> QED
  BY <1>1, NoLogin

\* The login goes on to another step, or is over.
LEMMA LoginGoesOn ==
    ASSUME LoginOK, NEW step, Goto(step),
           step \in {"password", "secondFactor", "noTerminal", "import", "prompt", "authorize",
                     "wait", "shutdown", "answer", "exchange"},
           pc = "login", UNCHANGED <<pc, cmd, file>>,
           step \in {"password", "secondFactor", "noTerminal"} => LoginBackend = "china",
           step \in {"prompt", "authorize", "wait", "shutdown", "answer", "exchange"}
              => cmd.how.oauth_method # "import"
    PROVE  LoginOK'
BY DEF LoginOK, LoginTypeOK, WayOK, RightAccount, LoginBackend, Goto, waiting

LEMMA LoginGetsOver ==
    ASSUME LoginOK, NEW t \in Token \cup {None}, Over(t),
           pc = "login", UNCHANGED <<pc, cmd, file>>,
           \/ t = None
           \/ LoginBackend = "china"
           \/ cmd.how.oauth_method # "import"
           \/ cmd.how.oauth_en_user \in {None, t.user}
    PROVE  LoginOK'
BY DEF LoginOK, LoginTypeOK, WayOK, RightAccount, LoginBackend, Over, StopWaitingThreads

\* Each step of the program takes the way that was asked for.
LEMMA LoginProgresses == ASSUME LoginOK, RefreshOK, LoginStep PROVE LoginOK'
<1> DEFINE how == cmd.how
<1>1. pc = "login" /\ UNCHANGED <<pc, cmd, file>>
  BY DEF LoginStep, command
<1>2. LoginProgram(LoginBackend, how, refreshGen) /\ WayOK
  BY <1>1 DEF LoginStep, LoginOK
<1>3. \A u \in Users : refreshGen[u] \in Nat
  BY CommandsAssumption DEF RefreshOK
<1>4. CASE GetAuthToken(LoginBackend, how)
  BY <1>1, <1>4, LoginGoesOn, LoginGetsOver DEF GetAuthToken
<1>5. CASE Password(how)
  <2>1. LoginBackend = "china"
    BY <1>2, <1>5 DEF Password, WayOK
  <2> QED
    BY <1>1, <1>5, <2>1, LoginGoesOn, LoginGetsOver, Tokens DEF Password, IsToken
<1>6. CASE SecondFactor
  <2>1. LoginBackend = "china"
    BY <1>2, <1>6 DEF SecondFactor, WayOK
  <2> QED
    BY <1>1, <1>6, <2>1, LoginGetsOver, Tokens DEF SecondFactor, IsToken
<1>7. CASE Import(how, refreshGen)
  <2> DEFINE session == Chosen(how.oauth_en_user)
             t       == [kind |-> "refresh", user |-> session.user,
                         gen |-> refreshGen[session.user]]
  <2>1. Over(None) \/ (session # None /\ Over(t))
    BY <1>7 DEF Import
  <2>2. CASE Over(None)
    BY <1>1, <2>2, LoginGetsOver
  <2>3. CASE session # None /\ Over(t)
    <3>1. session.user \in Users /\ how.oauth_en_user \in {None, session.user}
      BY <2>3, ChosenSession
    <3>2. t \in Token /\ t.user = session.user
      BY <1>3, <3>1, Tokens DEF IsToken
    <3> HIDE DEF t
    <3> QED
      BY <1>1, <2>3, <3>1, <3>2, LoginGetsOver
  <2> QED
    BY <2>1, <2>2, <2>3
<1>8. CASE Prompt \/ Authorize
  <2>1. how.oauth_method # "import"
    BY <1>2, <1>8 DEF Prompt, Authorize, WayOK
  <2>2. CASE Prompt
    BY <1>1, <2>1, <2>2, LoginGoesOn, LoginGetsOver DEF Prompt
  <2>3. CASE Authorize
    <3>1. CASE Over(None)
      BY <1>1, <3>1, LoginGetsOver
    <3>2. CASE lpc' = "wait"
      BY <1>1, <2>1, <2>3, <3>2
         DEF Authorize, Over, LoginOK, LoginTypeOK, WayOK, RightAccount, LoginBackend
    <3> QED
      BY <2>3, <3>1, <3>2 DEF Authorize
  <2> QED
    BY <1>8, <2>2, <2>3
<1>9. CASE StopWaiting \/ Shutdown
  BY <1>1, <1>2, <1>9
     DEF StopWaiting, Shutdown, LoginOK, LoginTypeOK, WayOK, RightAccount, LoginBackend
<1>10. CASE Answer
  <2>1. CASE Over(None)
    BY <1>1, <2>1, LoginGetsOver
  <2>2. CASE lpc' = "exchange" /\ StopWaitingThreads /\ UNCHANGED token
    BY <1>1, <1>2, <1>10, <2>2
       DEF Answer, StopWaitingThreads, LoginOK, LoginTypeOK, WayOK, RightAccount, LoginBackend
  <2> QED
    BY <1>10, <2>1, <2>2 DEF Answer
<1>11. CASE Exchange(refreshGen)
  <2>1. how.oauth_method # "import"
    BY <1>2, <1>11 DEF Exchange, WayOK
  <2> QED
    BY <1>1, <1>3, <1>11, <2>1, LoginGetsOver, Tokens DEF Exchange, IsToken
<1> QED
  BY <1>2, <1>4, <1>5, <1>6, <1>7, <1>8, <1>9, <1>10, <1>11 DEF LoginProgram

\* What the login waits for has no part in its way.
LEMMA LoginHears == ASSUME LoginOK, LoginInputs \/ LoginServes PROVE LoginOK'
BY DEF LoginInputs, LoginServes, LoginInput, Connect, Paste, Serve, command,
   LoginOK, LoginTypeOK, WayOK, RightAccount, LoginBackend, Answers

\* LoginOK holds in every reachable state, for any sessions of the client.
LEMMA LoginInv == Spec => []LoginOK
<1>1. Init => LoginOK
  BY DEF Init, LoginOff, LoginOK, LoginTypeOK, WayOK, RightAccount
<1>2. ASSUME LoginOK, RefreshOK, [Next]_vars PROVE LoginOK'
  <2>1. CASE CheckVersion \/ Write \/ InitializeStorage \/ CreateFile \/ Backend \/ StoredToken
    BY <1>2, <2>1, LoginStops, LoginUntouched DEF CheckVersion, Write, InitializeStorage,
       CreateFile, Backend, StoredToken, Continue, Exit, Ended
  <2>2. CASE LoginStep \/ LoginServes \/ LoginInputs
    BY <1>2, <2>2, LoginProgresses, LoginHears
  <2>3. CASE LoggedIn \/ Die \/ TasksPhase
    BY <2>3, LoginStops DEF LoggedIn, Die, TasksPhase, Exit, Ended
  <2>4. CASE Resolve \/ Refresh \/ Verify \/ Persist \/ SyncClient \/ CheckUser
    BY <1>2, <2>4, LoginStops, LoginUntouched DEF Resolve, Refresh, Verify, Persist, SyncClient,
       CheckUser, Continue, Exit, Ended
  <2>5. CASE StoreToken \/ Scan \/ SaveUSN \/ SharedNotes
    BY <1>2, <2>5, LoginStops, LoginUntouched DEF StoreToken, Scan, SaveUSN, SharedNotes,
       Continue, Exit, Ended
  <2>6. CASE InitDb \/ Reauth \/ Sync
    BY <1>2, <2>6, LoginUntouched DEF InitDb, Reauth, Sync, Start
  <2>7. CASE UNCHANGED vars
    BY <1>2, <2>7 DEF vars, command, login, LoginOK, LoginTypeOK, WayOK, RightAccount,
       LoginBackend
  <2> QED
    BY <1>2, <2>1, <2>2, <2>3, <2>4, <2>5, <2>6, <2>7 DEF Next, Step
<1> QED
  BY <1>1, <1>2, RefreshInv, PTL DEF Spec

\* RightAccount: an import that names an account never takes the session of
\* another one, whichever sessions the desktop client has.
THEOREM ImportsRightAccount == Spec => []RightAccount
<1>1. LoginOK => RightAccount
  BY DEF LoginOK, WayOK, RightAccount
<1> QED
  BY <1>1, LoginInv, PTL

\* TypeOK of Commands.
THEOREM Typing == Spec => []TypeOK
<1>1. IInv /\ RefreshOK /\ LoginOK => TypeOK
  BY DEF IInv, FileOK, TokenOK, Good, IsFile, RefreshOK, LoginOK, TypeOK
<1> QED
  BY <1>1, Invariance, RefreshInv, LoginInv, PTL

----------------------------------------------------------------------------
(* Versions of the database.  A plan, the writes that are left, first      *)
(* drops d tables, then creates what the version lacks, saves the version  *)
(* as its write k, and after it only what does not undo that.              *)

Version(f) == f.config["DB_VERSION"]

TablesOf(version) ==
    IF version = None THEN {}
    ELSE {"notebooks", "notes", "config"}
         \cup (IF version >= 4 THEN {"notebooks_linked"} ELSE {})
         \cup (IF version >= 6 THEN {"tasks", "reminders"} ELSE {})
         \cup (IF version >= 7 THEN {"shared_notes"} ELSE {})

IsDrop(w)    == w.op = "drop"
IsVersion(w) == w.op = "set" /\ w.name = "DB_VERSION"
IsUSN(w)     == w.op = "set" /\ w.name = "USN"
Quiet(w)     == ~ IsDrop(w) /\ ~ IsVersion(w) /\ ~ IsUSN(w)
Late(w)      == ~ IsDrop(w) /\ ~ IsVersion(w) /\ (IsUSN(w) => w.value = 0)

SaveVersion == Set("DB_VERSION", CURRENT_DB_VERSION)
IsResync(s) == Len(s) = 2 /\ s[1] = Set("USN", 0) /\ s[2] = Raise

Plan(f, s, d, k) ==
    /\ s[k] = SaveVersion
    /\ \A i \in 1 .. d : IsDrop(s[i])
    /\ \A i \in d + 1 .. k - 1 : Quiet(s[i])
    /\ \A i \in k + 1 .. Len(s) : Late(s[i])
    /\ \A t \in Tables : (\E i \in 1 .. k - 1 : s[i] = Create(t)) \/ (d = 0 /\ t \in f.tables)
    /\ Version(f) # None => d = 0 /\ Len(s) = k
    /\ Version(f) = None =>
          \/ f.config["USN"] = None
          \/ Len(s) = k + 2 /\ s[k + 1] = Set("USN", 0) /\ s[k + 2] = Raise

Planned(f, s) == \E k \in DOMAIN s : \E d \in 0 .. k - 1 : Plan(f, s, d, k)

\* A file has the tables that its version promises.
Promised(f) == /\ Version(f) \in {None} \cup 1 .. CURRENT_DB_VERSION
               /\ TablesOf(Version(f)) \subseteq f.tables

\* There is a file: one is seen, or a command is at work on it.
HasFile == file # None \/ pc = "write" \/ (pc # "idle" /\ cmd.name # "init_db")

VersionOK == HasFile => Promised(file)

PlanOK == pc = "write" => \/ Planned(file, writes)
                          \/ /\ Version(file) = CURRENT_DB_VERSION
                             /\ \A i \in DOMAIN writes : Late(writes[i])

\* The number of a file is that of its notes, or lower.
Claims(f) == f.config["USN"] = None \/ f.notes.upto >= f.config["USN"]

ClaimsOK == HasFile /\ Version(file) # None /\ ~ halfUpgraded =>
               Claims(file) \/ (pc = "write" /\ IsResync(writes))

SavingOK == pc = "saveUSN" =>
               \E n \in Nat : /\ writes = <<Set("USN", n)>>
                              /\ Version(file) # None /\ ~ halfUpgraded => n <= file.notes.upto

VInv == VersionOK /\ PlanOK /\ ClaimsOK /\ SavingOK

\* What a write changes of all this.
LEMMA Effects ==
    ASSUME NEW f, Good(f), NEW w
    PROVE  /\ ~ IsVersion(w) => Version(Do(f, w)) = Version(f)
           /\ w = SaveVersion => Version(Do(f, w)) = CURRENT_DB_VERSION
           /\ ~ IsUSN(w) => Do(f, w).config["USN"] = f.config["USN"]
           /\ IsUSN(w) => Do(f, w).config["USN"] = w.value
           /\ ~ IsDrop(w) => f.tables \subseteq Do(f, w).tables /\ Do(f, w).notes = f.notes
           /\ \A t : w = Create(t) => t \in Do(f, w).tables
<1>1. CASE w.op = "set"
  <2>1. Do(f, w) = [f EXCEPT !.config[w.name] = w.value]
    BY <1>1 DEF Do
  <2> QED
    BY <1>1, <2>1 DEF Good, IsFile, ConfigNames, Version, IsVersion, IsUSN, IsDrop, SaveVersion,
       Set, Create
<1>2. CASE w.op = "create"
  <2>1. Do(f, w) = [f EXCEPT !.tables = @ \cup {w.name}]
    BY <1>2 DEF Do
  <2> QED
    BY <1>2, <2>1 DEF Good, IsFile, Version, IsVersion, IsUSN, IsDrop, SaveVersion, Set, Create
<1>3. CASE w.op = "drop"
  <2>1. Do(f, w).config = f.config
    BY <1>3 DEF Do, Good, IsFile
  <2> QED
    BY <1>3, <2>1 DEF Version, IsVersion, IsUSN, IsDrop, SaveVersion, Set, Create
<1>4. CASE w.op \notin {"set", "create", "drop"}
  <2>1. Do(f, w) = f
    BY <1>4 DEF Do
  <2> QED
    BY <1>4, <2>1 DEF IsVersion, IsUSN, IsDrop, SaveVersion, Set, Create
<1> QED
  BY <1>1, <1>2, <1>3, <1>4

\* A write before the version is saved carries the plan on.
LEMMA PlanGoesOn ==
    ASSUME NEW f, Good(f), NEW W, NEW s \in Seq(W), NEW k \in DOMAIN s, NEW d \in 0 .. k - 1,
           Plan(f, s, d, k), k > 1
    PROVE  /\ Planned(Do(f, Head(s)), Tail(s))
           /\ Version(Do(f, Head(s))) = Version(f)
           /\ Version(f) # None => /\ f.tables \subseteq Do(f, Head(s)).tables
                                   /\ Do(f, Head(s)).notes = f.notes
                                   /\ Do(f, Head(s)).config["USN"] = f.config["USN"]
<1> DEFINE w == Head(s)
           g == Do(f, w)
           e == IF d = 0 THEN 0 ELSE d - 1
<1>1. /\ Tail(s) \in Seq(W) /\ Len(Tail(s)) = Len(s) - 1 /\ w = s[1]
      /\ \A i \in 1 .. Len(s) - 1 : Tail(s)[i] = s[i + 1]
      /\ DOMAIN s = 1 .. Len(s) /\ Len(s) \in Nat
  OBVIOUS
<1>2. /\ k - 1 \in DOMAIN Tail(s) /\ e \in 0 .. (k - 1) - 1 /\ d \in Nat /\ k \in Nat
      /\ k <= Len(s)
  BY <1>1
<1>3. (IF d > 0 THEN IsDrop(w) ELSE Quiet(w)) /\ ~ IsVersion(w) /\ ~ IsUSN(w)
  BY <1>1, <1>2 DEF Plan, Quiet, IsDrop, IsVersion, IsUSN
<1>4. /\ Version(g) = Version(f) /\ g.config["USN"] = f.config["USN"]
      /\ d = 0 => f.tables \subseteq g.tables /\ g.notes = f.notes
      /\ \A t : w = Create(t) => t \in g.tables
  BY <1>2, <1>3, Effects DEF Quiet
<1> HIDE DEF g
<1>5. Tail(s)[k - 1] = SaveVersion
  BY <1>1, <1>2 DEF Plan
<1>6. /\ \A i \in 1 .. e : IsDrop(Tail(s)[i])
      /\ \A i \in e + 1 .. (k - 1) - 1 : Quiet(Tail(s)[i])
      /\ \A i \in (k - 1) + 1 .. Len(Tail(s)) : Late(Tail(s)[i])
  <2>1. ASSUME NEW i \in 1 .. e PROVE IsDrop(Tail(s)[i])
    <3>1. i + 1 \in 1 .. d /\ i \in 1 .. Len(s) - 1
      BY <1>2
    <3> QED
      BY <1>1, <3>1 DEF Plan
  <2>2. ASSUME NEW i \in e + 1 .. (k - 1) - 1 PROVE Quiet(Tail(s)[i])
    <3>1. i + 1 \in d + 1 .. k - 1 /\ i \in 1 .. Len(s) - 1
      BY <1>2
    <3> QED
      BY <1>1, <3>1 DEF Plan
  <2>3. ASSUME NEW i \in (k - 1) + 1 .. Len(Tail(s)) PROVE Late(Tail(s)[i])
    <3>1. i + 1 \in k + 1 .. Len(s) /\ i \in 1 .. Len(s) - 1
      BY <1>1, <1>2
    <3> QED
      BY <1>1, <3>1 DEF Plan
  <2> QED
    BY <2>1, <2>2, <2>3
<1>7. ASSUME NEW t \in Tables
      PROVE  (\E i \in 1 .. (k - 1) - 1 : Tail(s)[i] = Create(t)) \/ (e = 0 /\ t \in g.tables)
  <2>1. CASE d = 0 /\ t \in f.tables
    BY <1>4, <2>1
  <2>2. CASE \E i \in 1 .. k - 1 : s[i] = Create(t)
    <3>1. PICK i \in 1 .. k - 1 : s[i] = Create(t)
      BY <2>2
    <3>2. CASE i = 1
      <4>1. ~ IsDrop(w)
        BY <1>1, <3>1, <3>2 DEF Create, IsDrop
      <4> QED
        BY <1>1, <1>2, <1>3, <1>4, <3>1, <3>2, <4>1
    <3>3. CASE i # 1
      <4>1. i - 1 \in 1 .. (k - 1) - 1 /\ Tail(s)[i - 1] = s[i]
        BY <1>1, <1>2, <3>3
      <4> QED
        BY <3>1, <4>1
    <3> QED
      BY <3>2, <3>3
  <2> QED
    BY <2>1, <2>2 DEF Plan
<1>8. Version(g) # None => e = 0 /\ Len(Tail(s)) = k - 1
  BY <1>1, <1>2, <1>4 DEF Plan
<1>9. Version(g) = None =>
          \/ g.config["USN"] = None
          \/ Len(Tail(s)) = (k - 1) + 2 /\ Tail(s)[(k - 1) + 1] = Set("USN", 0)
                                        /\ Tail(s)[(k - 1) + 2] = Raise
  <2> SUFFICES ASSUME Len(s) = k + 2, s[k + 1] = Set("USN", 0), s[k + 2] = Raise
               PROVE  Len(Tail(s)) = (k - 1) + 2 /\ Tail(s)[(k - 1) + 1] = Set("USN", 0)
                                                 /\ Tail(s)[(k - 1) + 2] = Raise
    BY <1>4 DEF Plan
  <2>1. k \in 1 .. Len(s) - 1 /\ k + 1 \in 1 .. Len(s) - 1 /\ (k + 1) + 1 = k + 2
    BY <1>1, <1>2
  <2>2. (k - 1) + 1 = k /\ (k - 1) + 2 = k + 1 /\ Len(s) - 1 = (k - 1) + 2
    BY <1>1, <1>2
  <2>3. Tail(s)[k] = s[k + 1] /\ Tail(s)[k + 1] = s[k + 2]
    BY <1>1, <2>1
  <2> QED
    BY <1>1, <2>2, <2>3
<1>10. Plan(g, Tail(s), e, k - 1)
  BY <1>5, <1>6, <1>7, <1>8, <1>9 DEF Plan
<1>11. Planned(g, Tail(s))
  BY <1>2, <1>10 DEF Planned
<1> QED
  BY <1>4, <1>11 DEF g, Plan

\* Saving the version ends the plan: every table is there.
LEMMA PlanEnds ==
    ASSUME NEW f, Good(f), NEW W, NEW s \in Seq(W), NEW d \in 0 .. 0, 1 \in DOMAIN s,
           Plan(f, s, d, 1)
    PROVE  /\ Version(Do(f, Head(s))) = CURRENT_DB_VERSION
           /\ Tables \subseteq Do(f, Head(s)).tables
           /\ \A i \in DOMAIN Tail(s) : Late(Tail(s)[i])
           /\ Do(f, Head(s)).notes = f.notes
           /\ Do(f, Head(s)).config["USN"] = f.config["USN"]
           /\ Version(f) = None => f.config["USN"] = None \/ IsResync(Tail(s))
<1>1. /\ Tail(s) \in Seq(W) /\ Len(Tail(s)) = Len(s) - 1 /\ Head(s) = s[1]
      /\ \A i \in 1 .. Len(s) - 1 : Tail(s)[i] = s[i + 1]
      /\ DOMAIN Tail(s) = 1 .. Len(s) - 1 /\ Len(s) \in Nat
  OBVIOUS
<1>2. Head(s) = SaveVersion /\ ~ IsUSN(Head(s)) /\ ~ IsDrop(Head(s))
  BY <1>1 DEF Plan, SaveVersion, Set, IsUSN, IsDrop
<1>3. \A t \in Tables : t \in f.tables
  BY DEF Plan
<1>4. \A i \in DOMAIN Tail(s) : Late(Tail(s)[i])
  BY <1>1 DEF Plan
<1>5. Version(f) = None => f.config["USN"] = None \/ IsResync(Tail(s))
  BY <1>1 DEF Plan, IsResync
<1> QED
  BY <1>2, <1>3, <1>4, <1>5, Effects

\* Sequences that begin with d drops and go on quietly.
Starts(x, d) == /\ d \in 0 .. Len(x)
                /\ \A i \in 1 .. d : IsDrop(x[i])
                /\ \A i \in d + 1 .. Len(x) : Quiet(x[i])

LEMMA Longer ==
    ASSUME NEW W, NEW x \in Seq(W), NEW y \in Seq(W), NEW d \in Nat, Starts(x, d),
           \A w \in Range(y) : Quiet(w)
    PROVE  x \o y \in Seq(W) /\ Starts(x \o y, d) /\ Range(x \o y) = Range(x) \cup Range(y)
<1>1. /\ x \o y \in Seq(W) /\ Len(x \o y) = Len(x) + Len(y)
      /\ \A i \in 1 .. Len(x) : (x \o y)[i] = x[i]
      /\ \A i \in 1 .. Len(y) : (x \o y)[Len(x) + i] = y[i]
      /\ \A i \in Len(x) + 1 .. Len(x) + Len(y) : (x \o y)[i] = y[i - Len(x)]
      /\ Len(x) \in Nat /\ Len(y) \in Nat
      /\ DOMAIN (x \o y) = 1 .. Len(x) + Len(y) /\ DOMAIN x = 1 .. Len(x) /\ DOMAIN y = 1 .. Len(y)
  OBVIOUS
<1> DEFINE z == x \o y
<1> HIDE DEF z
<1>2. \A i \in 1 .. d : IsDrop(z[i])
  BY <1>1 DEF Starts, z
<1>3. ASSUME NEW i \in d + 1 .. Len(z) PROVE Quiet(z[i])
  <2>1. CASE i <= Len(x)
    BY <1>1, <2>1 DEF Starts, z
  <2>2. CASE i > Len(x)
    <3>1. i - Len(x) \in DOMAIN y /\ z[i] = y[i - Len(x)]
      BY <1>1, <2>2 DEF z
    <3> QED
      BY <3>1 DEF Range
  <2> QED
    BY <1>1, <2>1, <2>2
<1>4. Range(z) = Range(x) \cup Range(y)
  <2>1. Range(z) \subseteq Range(x) \cup Range(y)
    <3> SUFFICES ASSUME NEW i \in DOMAIN z PROVE z[i] \in Range(x) \cup Range(y)
      BY DEF Range
    <3>1. CASE i <= Len(x)
      BY <1>1, <3>1 DEF Range, z
    <3>2. CASE i > Len(x)
      <4>1. i - Len(x) \in DOMAIN y /\ z[i] = y[i - Len(x)]
        BY <1>1, <3>2 DEF z
      <4> QED
        BY <4>1 DEF Range
    <3> QED
      BY <1>1, <3>1, <3>2 DEF z
  <2>2. Range(x) \subseteq Range(z)
    BY <1>1 DEF Range, z
  <2>3. Range(y) \subseteq Range(z)
    <3> SUFFICES ASSUME NEW i \in DOMAIN y PROVE y[i] \in Range(z)
      BY DEF Range
    <3>1. Len(x) + i \in DOMAIN z /\ z[Len(x) + i] = y[i]
      BY <1>1 DEF z
    <3> QED
      BY <3>1 DEF Range
  <2> QED
    BY <2>1, <2>2, <2>3
<1> QED
  BY <1>1, <1>2, <1>3, <1>4 DEF Starts, z

\* When such a sequence is followed by the version it is a plan.
LEMMA PlanOf ==
    ASSUME NEW W, NEW x \in Seq(W), NEW b \in Seq(W), NEW d \in Nat, SaveVersion \in W,
           Starts(x, d), \A w \in Range(b) : Late(w), NEW f,
           \A t \in Tables : Create(t) \in Range(x) \/ (d = 0 /\ t \in f.tables),
           Version(f) # None => d = 0 /\ Len(b) = 0,
           Version(f) = None => f.config["USN"] = None \/ IsResync(b)
    PROVE  Planned(f, x \o <<SaveVersion>> \o b)
<1> DEFINE s == x \o <<SaveVersion>> \o b
           k == Len(x) + 1
<1>1. /\ Len(s) = k + Len(b) /\ DOMAIN s = 1 .. Len(s)
      /\ \A i \in 1 .. Len(x) : s[i] = x[i]
      /\ s[k] = SaveVersion
      /\ \A i \in k + 1 .. Len(s) : s[i] = b[i - k]
      /\ Len(x) \in Nat /\ Len(b) \in Nat /\ k \in Nat
      /\ DOMAIN x = 1 .. Len(x) /\ DOMAIN b = 1 .. Len(b)
  OBVIOUS
<1> HIDE DEF s
<1>2. \A i \in k + 1 .. Len(s) : i - k \in DOMAIN b
  BY <1>1
<1>3. \A i \in k + 1 .. Len(s) : Late(s[i])
  BY <1>1, <1>2 DEF Range
<1>4. \A t \in Tables : (\E i \in 1 .. k - 1 : s[i] = Create(t)) \/ (d = 0 /\ t \in f.tables)
  <2> SUFFICES ASSUME NEW t \in Tables, Create(t) \in Range(x)
               PROVE  \E i \in 1 .. k - 1 : s[i] = Create(t)
    OBVIOUS
  <2>1. PICK i \in DOMAIN x : x[i] = Create(t)
    BY DEF Range
  <2> QED
    BY <1>1, <2>1
<1>5. /\ \A i \in 1 .. d : IsDrop(s[i])
      /\ \A i \in d + 1 .. k - 1 : Quiet(s[i])
      /\ d \in 0 .. k - 1 /\ k \in DOMAIN s
  BY <1>1 DEF Starts
<1>6. Version(f) = None =>
          \/ f.config["USN"] = None
          \/ Len(s) = k + 2 /\ s[k + 1] = Set("USN", 0) /\ s[k + 2] = Raise
  <2> SUFFICES ASSUME IsResync(b)
               PROVE  Len(s) = k + 2 /\ s[k + 1] = Set("USN", 0) /\ s[k + 2] = Raise
    OBVIOUS
  <2>1. Len(s) = k + 2 /\ k + 1 \in k + 1 .. Len(s) /\ k + 2 \in k + 1 .. Len(s)
        /\ (k + 1) - k = 1 /\ (k + 2) - k = 2
    BY <1>1 DEF IsResync
  <2>2. s[k + 1] = b[(k + 1) - k] /\ s[k + 2] = b[(k + 2) - k]
    BY <1>1, <2>1
  <2> QED
    BY <2>1, <2>2 DEF IsResync
<1>7. Version(f) # None => d = 0 /\ Len(s) = k
  BY <1>1
<1>8. Plan(f, s, d, k)
  BY <1>1, <1>3, <1>4, <1>5, <1>6, <1>7 DEF Plan
<1>9. Planned(f, s)
  BY <1>5, <1>8 DEF Planned
<1> QED
  BY <1>9 DEF s

\* The writes of the schema and of the migrations are quiet.
LEMMA QuietWrites ==
    /\ \A t : Quiet(Create(t)) /\ Quiet(Insert(t))
    /\ \A name, v : name \notin {"DB_VERSION", "USN"} => Quiet(Set(name, v))
BY DEF Quiet, IsDrop, IsVersion, IsUSN, Create, Insert, Set

LEMMA SchemaQuiet == /\ Range(CreateSchema) = {Create(t) : t \in Tables}
                     /\ \A w \in Range(CreateSchema) : Quiet(w)
<1>1. DOMAIN CreateSchema = DOMAIN DB_SCHEMA
      /\ \A i \in DOMAIN DB_SCHEMA : CreateSchema[i] = Create(DB_SCHEMA[i])
  BY DEF CreateSchema
<1>2. Range(CreateSchema) = {Create(t) : t \in Tables}
  BY <1>1, Zenon DEF Range, Tables
<1> QED
  BY <1>2, QuietWrites

\* What a short sequence consists of.
LEMMA ShortRange ==
    ASSUME NEW a, NEW b, NEW c
    PROVE  /\ Range(<<>>) = {} /\ Range(<<a>>) = {a} /\ Range(<<a, b>>) = {a, b}
           /\ Range(<<a, b, c>>) = {a, b, c}
BY DEF Range

\* An upgrade is a plan for every version that has the tables it promises.
LEMMA UpgradePlan ==
    ASSUME NEW f, Promised(f), NEW v,
           v = IF Version(f) = None THEN 0 ELSE Version(f), v # CURRENT_DB_VERSION
    PROVE  Planned(f, upgrade_db(v))
<1> DEFINE drops  == <<Drop("notebooks"), Drop("notes")>> \o CreateSchema
           linked == <<Create("notebooks_linked")>>
           tasks  == <<Set("last_connection_tasks", 0), Create("tasks"), Create("reminders")>>
           shared == <<Set("last_connection_shared_notes", 0), Create("shared_notes"),
                       Insert("notebooks")>>
           resync == <<Set("USN", 0), Raise>>
           x1 == When(v = 0, drops)
           x2 == x1 \o When(v < 4, linked)
           x3 == x2 \o When(v < 6, tasks)
           x4 == x3 \o When(v < 7, shared)
           b  == When(v = 0, resync)
           d  == IF v = 0 THEN 2 ELSE 0
           W  == Harmless
<1>1. v \in 0 .. 6 /\ (v = 0 <=> Version(f) = None)
  BY LoginAssumption DEF Promised, CURRENT_DB_VERSION
<1>2. /\ Drop("notebooks") \in W /\ Drop("notes") \in W
      /\ Create("notebooks_linked") \in W /\ Create("tasks") \in W
      /\ Create("reminders") \in W /\ Create("shared_notes") \in W
      /\ Insert("notebooks") \in W /\ Raise \in W
      /\ Set("last_connection_tasks", 0) \in W
      /\ Set("last_connection_shared_notes", 0) \in W
      /\ SaveVersion \in W /\ Set("USN", 0) \in W
  BY HarmlessWrites DEF Names, ConfigNames, CURRENT_DB_VERSION, SaveVersion
<1>3. CreateSchema \in Seq(W)
  BY SchemaHarmless
<1> HIDE DEF W
<1>4. linked \in Seq(W) /\ tasks \in Seq(W) /\ shared \in Seq(W) /\ resync \in Seq(W)
      /\ <<Drop("notebooks"), Drop("notes")>> \in Seq(W) /\ <<>> \in Seq(W)
  BY <1>2, Short
<1>5. drops \in Seq(W) /\ Starts(drops, 2) /\ \A t \in Tables : Create(t) \in Range(drops)
  <2> DEFINE two == <<Drop("notebooks"), Drop("notes")>>
  <2>1. Starts(two, 2) /\ two \in Seq(W)
    BY <1>4 DEF Starts, IsDrop, Drop
  <2>2. drops = two \o CreateSchema
    OBVIOUS
  <2> HIDE DEF two, drops
  <2>3. /\ two \o CreateSchema \in Seq(W) /\ Starts(two \o CreateSchema, 2)
        /\ Range(two \o CreateSchema) = Range(two) \cup Range(CreateSchema)
    BY <1>3, <2>1, SchemaQuiet, Longer
  <2> QED
    BY <2>2, <2>3, SchemaQuiet
<1>6. /\ \A w \in Range(linked) \cup Range(tasks) \cup Range(shared) : Quiet(w)
      /\ Create("notebooks_linked") \in Range(linked)
      /\ Create("tasks") \in Range(tasks) /\ Create("reminders") \in Range(tasks)
      /\ Create("shared_notes") \in Range(shared)
  <2> HIDE DEF linked, tasks, shared
  <2>0. /\ linked = <<Create("notebooks_linked")>>
        /\ tasks = <<Set("last_connection_tasks", 0), Create("tasks"), Create("reminders")>>
        /\ shared = <<Set("last_connection_shared_notes", 0), Create("shared_notes"),
                      Insert("notebooks")>>
    BY DEF linked, tasks, shared
  <2>1. /\ Range(linked) = {linked[1]} /\ Range(tasks) = {tasks[1], tasks[2], tasks[3]}
        /\ Range(shared) = {shared[1], shared[2], shared[3]}
    BY <2>0 DEF Range
  <2> QED
    BY <2>0, <2>1, QuietWrites
<1>7. \A w \in Range(resync) : Late(w)
  <2>1. Range(resync) = {Set("USN", 0), Raise}
    BY ShortRange
  <2> HIDE DEF resync
  <2>2. Late(Set("USN", 0)) /\ Late(Raise)
    BY DEF Late, IsDrop, IsVersion, IsUSN, Set, Raise
  <2> QED
    BY <2>1, <2>2
<1>8. Starts(<<>>, 0) /\ Range(<<>>) = {}
  BY DEF Starts, Range
<1> HIDE DEF drops, linked, tasks, shared, resync
<1>9. x1 \in Seq(W) /\ Starts(x1, d) /\ d \in Nat
  BY <1>4, <1>5, <1>8 DEF When
<1> HIDE DEF d, x1
<1>10. x2 \in Seq(W) /\ Starts(x2, d) /\ Range(x2) = Range(x1) \cup Range(When(v < 4, linked))
  <2>1. When(v < 4, linked) \in Seq(W) /\ \A w \in Range(When(v < 4, linked)) : Quiet(w)
    BY <1>4, <1>6, <1>8 DEF When
  <2> QED
    BY <1>9, <2>1, Longer
<1> HIDE DEF x2
<1>11. x3 \in Seq(W) /\ Starts(x3, d) /\ Range(x3) = Range(x2) \cup Range(When(v < 6, tasks))
  <2>1. When(v < 6, tasks) \in Seq(W) /\ \A w \in Range(When(v < 6, tasks)) : Quiet(w)
    BY <1>4, <1>6, <1>8 DEF When
  <2> QED
    BY <1>9, <1>10, <2>1, Longer
<1> HIDE DEF x3
<1>12. x4 \in Seq(W) /\ Starts(x4, d) /\ Range(x4) = Range(x3) \cup Range(When(v < 7, shared))
  <2>1. When(v < 7, shared) \in Seq(W) /\ \A w \in Range(When(v < 7, shared)) : Quiet(w)
    BY <1>4, <1>6, <1>8 DEF When
  <2> QED
    BY <1>9, <1>11, <2>1, Longer
<1> HIDE DEF x4
<1>13. ASSUME NEW t \in Tables PROVE Create(t) \in Range(x4) \/ (d = 0 /\ t \in f.tables)
  <2>1. CASE v = 0
    BY <1>5, <1>10, <1>11, <1>12, <2>1 DEF When, x1
  <2>2. CASE v # 0
    <3>1. d = 0 /\ TablesOf(v) \subseteq f.tables /\ Version(f) # None /\ v = Version(f)
      BY <1>1, <2>2 DEF d, Promised
    <3>2. t \in {"notebooks", "notes", "config"} => t \in f.tables
      BY <1>1, <3>1 DEF TablesOf
    <3>3. t = "notebooks_linked" => t \in f.tables \/ Create(t) \in Range(x4)
      BY <1>1, <1>6, <1>10, <1>11, <1>12, <3>1 DEF TablesOf, When
    <3>4. t \in {"tasks", "reminders"} => t \in f.tables \/ Create(t) \in Range(x4)
      BY <1>1, <1>6, <1>11, <1>12, <3>1 DEF TablesOf, When
    <3>5. t = "shared_notes" => Create(t) \in Range(x4)
      BY <1>1, <1>6, <1>12 DEF When
    <3> QED
      BY <3>1, <3>2, <3>3, <3>4, <3>5, TableNames DEF Names
  <2> QED
    BY <2>1, <2>2
<1>14. b \in Seq(W) /\ \A w \in Range(b) : Late(w)
  BY <1>4, <1>7, <1>8 DEF When
<1>15. Version(f) # None => d = 0 /\ Len(b) = 0
  BY <1>1 DEF d, When
<1>16. Version(f) = None => IsResync(b)
  BY <1>1 DEF When, IsResync, resync
<1> HIDE DEF b
<1>17. Planned(f, x4 \o <<SaveVersion>> \o b)
  BY <1>2, <1>9, <1>12, <1>13, <1>14, <1>15, <1>16, PlanOf
<1> QED
  BY <1>17, Zenon DEF x1, x2, x3, x4, b, drops, linked, tasks, shared, resync, upgrade_db, SaveVersion

\* So are the writes of init_db to an empty file.
LEMMA InitPlan ==
    ASSUME NEW t, NEW u, NEW backend
    PROVE  Planned(EmptyFile, InitWrites(t, u, backend))
<1> DEFINE b == <<Set("USN", 0), Set("auth_token", t),
                  Set("user", u), Set("backend", backend), Set("last_connection_tasks", 0),
                  Set("last_connection_shared_notes", 0), Insert("notebooks")>>
           W == Range(CreateSchema) \cup {SaveVersion} \cup Range(b)
<1>1. CreateSchema \in Seq(W)
  <2>1. CreateSchema \in Seq(Harmless)
    BY SchemaHarmless
  <2>2. DOMAIN CreateSchema = 1 .. Len(CreateSchema) /\ Len(CreateSchema) \in Nat
        /\ CreateSchema = [i \in 1 .. Len(CreateSchema) |-> CreateSchema[i]]
    BY <2>1
  <2> HIDE DEF W
  <2>3. \A i \in 1 .. Len(CreateSchema) : CreateSchema[i] \in W
    BY <2>2 DEF Range, W
  <2> QED
    BY <2>2, <2>3
<1>2. b \in Seq(W)
  BY DEF Range
<1>3. Range(b) = {b[1], b[2], b[3], b[4], b[5], b[6], b[7]}
  BY DEF Range
<1>4. \A w \in Range(b) : Late(w)
  BY <1>3 DEF Late, IsDrop, IsVersion, IsUSN, Set, Insert
<1>5. Starts(CreateSchema, 0)
  <2>1. CreateSchema \in Seq(W)
    BY <1>1
  <2> HIDE DEF W
  <2> QED
    BY <2>1, SchemaQuiet DEF Starts, Range
<1>6. Version(EmptyFile) = None /\ EmptyFile.config["USN"] = None
  BY DEF Version, EmptyFile, ConfigNames
<1>7. SaveVersion \in W
  OBVIOUS
<1> HIDE DEF W, b
<1>8. Planned(EmptyFile, CreateSchema \o <<SaveVersion>> \o b)
  BY <1>1, <1>2, <1>4, <1>5, <1>6, <1>7, SchemaQuiet, PlanOf
<1>9. InitWrites(t, u, backend) = CreateSchema \o (<<SaveVersion>> \o b)
  <2> DEFINE y == <<SaveVersion, Set("USN", 0), Set("auth_token", t),
                    Set("user", u), Set("backend", backend), Set("last_connection_tasks", 0),
                    Set("last_connection_shared_notes", 0), Insert("notebooks")>>
             z == <<SaveVersion>> \o b
  <2>1. z \in Seq(W) /\ Len(z) = 1 + Len(b) /\ z[1] = SaveVersion
        /\ \A i \in 2 .. Len(z) : z[i] = b[i - 1]
    BY <1>2, <1>7
  <2>2. Len(b) = 7 /\ \A i \in 1 .. 7 : b[i] = y[i + 1]
    BY DEF b
  <2>3. Len(y) = 8 /\ y[1] = SaveVersion /\ y = [i \in 1 .. 8 |-> y[i]]
    OBVIOUS
  <2> HIDE DEF y, z
  <2>4. \A i \in 1 .. 8 : z[i] = y[i]
    <3> TAKE i \in 1 .. 8
    <3>1. CASE i = 1
      BY <2>1, <2>3, <3>1
    <3>2. CASE i # 1
      <4>1. i - 1 \in 1 .. 7 /\ (i - 1) + 1 = i /\ i \in 2 .. Len(z)
        BY <2>1, <2>2, <3>2
      <4> QED
        BY <2>1, <2>2, <4>1
    <3> QED
      BY <3>1, <3>2
  <2>5. z = [i \in 1 .. 8 |-> z[i]]
    BY <2>1, <2>2
  <2>6. z = y
    BY <2>3, <2>4, <2>5
  <2> QED
    BY <2>6 DEF InitWrites, SaveVersion, y, z
<1>10. CreateSchema \o (<<SaveVersion>> \o b) = CreateSchema \o <<SaveVersion>> \o b
  BY <1>1, <1>2, <1>7
<1> QED
  BY <1>8, <1>9, <1>10


\* A step that leaves tables, version, number and notes as they are, and is
\* not one of a sequence of writes.
Same(f, g) == /\ g.tables = f.tables /\ Version(g) = Version(f)
              /\ g.config["USN"] = f.config["USN"] /\ g.notes = f.notes

LEMMA VersionKept ==
    ASSUME VInv, HasFile => Same(file, file'), HasFile' => HasFile,
           halfUpgraded => halfUpgraded',
           pc = "write" /\ IsResync(writes) => halfUpgraded',
           pc' \notin {"write", "saveUSN"}
    PROVE  VInv'
BY DEF VInv, VersionOK, Promised, PlanOK, ClaimsOK, SavingOK, Claims, Same

\* The end of a command, and its steps between two writes.
LEMMA VersionEnds ==
    ASSUME VInv, UNCHANGED <<file, halfUpgraded>>, HasFile' => HasFile,
           pc' \notin {"write", "saveUSN"}, pc # "write"
    PROVE  VInv'
BY VersionKept DEF Same

LEMMA VersionExits ==
    ASSUME VInv, Exit, pc # "write"
    PROVE  VInv'
BY VersionEnds DEF Exit, Ended, bounds, HasFile

\* A new credential in the file.
LEMMA CredentialKept ==
    ASSUME NEW f, Good(f), NEW t
    PROVE  Same(f, set_config_value(f, "auth_token", t))
<1>1. set_config_value(f, "auth_token", t) = [f EXCEPT !.config["auth_token"] = t]
  BY DEF set_config_value, Do, Set
<1> QED
  BY <1>1 DEF Same, Version, Good, IsFile, ConfigNames

\* A version in need of an upgrade gets the plan for it.
LEMMA VersionPlanned == ASSUME IInv, VInv, CheckVersion PROVE VInv'
<1>0. pc = "checkVersion" /\ HasFile /\ Promised(file)
  BY DEF CheckVersion, IInv, StepOK, HasFile, VInv, VersionOK
<1>1. CASE Exit
  BY <1>0, <1>1, VersionExits
<1>2. CASE Continue("backend")
  BY <1>0, <1>2, VersionEnds DEF Continue, bounds, HasFile
<1>3. CASE ~ Exit /\ ~ Continue("backend")
  <2> DEFINE v == IF Version(file) = None THEN 0 ELSE Version(file)
  <2>1. /\ writes' = upgrade_db(v) /\ pc' = "write" /\ UNCHANGED <<file, halfUpgraded>>
        /\ v # CURRENT_DB_VERSION
    BY <1>3 DEF CheckVersion, Version, bounds
  <2>2. Planned(file, upgrade_db(v))
    BY <1>0, <2>1, UpgradePlan
  <2> QED
    BY <1>0, <2>1, <2>2 DEF VInv, VersionOK, PlanOK, ClaimsOK, SavingOK, HasFile
<1> QED
  BY <1>1, <1>2, <1>3

\* One write after the other, as planned.
LEMMA VersionWritten == ASSUME IInv, VInv, Write PROVE VInv'
<1> DEFINE W == Harmless \cup OwnWrites
           w == Head(writes)
<1>1. pc = "write" /\ Good(file) /\ HasFile /\ Promised(file)
  BY DEF Write, IInv, FileOK, HasFile, VInv, VersionOK
<1>2. writes \in Seq(W)
  <2>1. \A s \in Seq(Harmless) : s \in Seq(W)
    OBVIOUS
  <2> QED
    BY <1>1, <2>1 DEF IInv, WritesOK
<1> HIDE DEF W
<1>3. CASE writes = <<>>
  <2>1. ~ IsResync(writes)
    BY <1>3 DEF IsResync
  <2>2. UNCHANGED <<file, halfUpgraded>> /\ pc' \in {"idle", "backend"}
    BY <1>3 DEF Write, Exit, Ended, Continue, bounds
  <2> QED
    BY <1>1, <2>1, <2>2, VersionKept DEF Same, HasFile
<1>4. CASE writes # <<>> /\ Fails(file, w)
  <2>1. UNCHANGED <<file, halfUpgraded>> /\ pc' = "idle"
    BY <1>4 DEF Write, Exit, Ended, bounds
  <2>2. IsResync(writes) => Version(file) = None
    <3> SUFFICES ASSUME IsResync(writes), Version(file) # None PROVE FALSE
      OBVIOUS
    <3>1. "config" \in file.tables
      BY <1>1, LoginAssumption DEF Promised, TablesOf
    <3>2. w = Set("USN", 0)
      BY <1>2, <1>4 DEF IsResync
    <3> QED
      BY <1>4, <3>1, <3>2 DEF Fails, Set
  <2> QED
    BY <1>1, <2>1, <2>2 DEF VInv, VersionOK, PlanOK, ClaimsOK, SavingOK, HasFile
<1>5. CASE writes # <<>> /\ ~ Fails(file, w)
  <2>1. /\ file' = Do(file, w) /\ writes' = Tail(writes)
        /\ pc' = "write" /\ UNCHANGED halfUpgraded
    BY <1>1, <1>5 DEF Write, bounds
  <2>2. HasFile'
    BY <2>1 DEF HasFile
  <2>3. /\ Tail(writes) \in Seq(W) /\ Len(Tail(writes)) = Len(writes) - 1 /\ w = writes[1]
        /\ \A i \in 1 .. Len(writes) - 1 : Tail(writes)[i] = writes[i + 1]
        /\ DOMAIN writes = 1 .. Len(writes) /\ Len(writes) \in Nat /\ 1 \in DOMAIN writes
        /\ DOMAIN Tail(writes) = 1 .. Len(writes) - 1
    BY <1>2, <1>5
  <2>4. CASE Planned(file, writes)
    <3>1. PICK k \in DOMAIN writes : \E d \in 0 .. k - 1 : Plan(file, writes, d, k)
      BY <2>4 DEF Planned
    <3>2. PICK d \in 0 .. k - 1 : Plan(file, writes, d, k)
      BY <3>1
    <3>3. CASE k > 1
      <4>1. /\ Planned(file', writes') /\ Version(file') = Version(file)
            /\ Version(file) # None => /\ file.tables \subseteq file'.tables
                                       /\ file'.notes = file.notes
                                       /\ file'.config["USN"] = file.config["USN"]
        BY <1>1, <1>2, <2>1, <3>2, <3>3, PlanGoesOn
      <4>2. Promised(file')
        BY <1>1, <4>1 DEF Promised, TablesOf
      <4>3. Version(file) # None => ~ IsResync(writes)
        <5> SUFFICES ASSUME IsResync(writes), Version(file) # None PROVE FALSE
          OBVIOUS
        <5>1. k = 2 /\ writes[2] = Raise
          BY <2>3, <3>2, <3>3 DEF IsResync, Plan
        <5> QED
          BY <3>2, <5>1 DEF Plan, SaveVersion, Set, Raise
      <4> QED
        BY <1>1, <2>1, <2>2, <4>1, <4>2, <4>3
           DEF VInv, VersionOK, PlanOK, ClaimsOK, Claims, SavingOK
    <3>4. CASE k = 1
      <4>1. d \in 0 .. 0 /\ Plan(file, writes, d, 1)
        BY <3>2, <3>4
      <4>2. /\ Version(file') = CURRENT_DB_VERSION /\ Tables \subseteq file'.tables
            /\ \A i \in DOMAIN writes' : Late(writes'[i])
            /\ file'.notes = file.notes /\ file'.config["USN"] = file.config["USN"]
            /\ Version(file) = None => file.config["USN"] = None \/ IsResync(writes')
        BY <1>1, <1>2, <2>1, <2>3, <4>1, PlanEnds
      <4>3. Promised(file')
        BY <4>2, TableNames DEF Promised, TablesOf, Names, CURRENT_DB_VERSION
      <4>4. Version(file) # None => ~ IsResync(writes)
        <5> SUFFICES ASSUME IsResync(writes), Version(file) # None PROVE FALSE
          OBVIOUS
        <5>1. Len(writes) = 1
          BY <4>1 DEF Plan
        <5> QED
          BY <5>1 DEF IsResync
      <4> QED
        BY <1>1, <2>1, <2>2, <4>2, <4>3, <4>4
           DEF VInv, VersionOK, PlanOK, ClaimsOK, Claims, SavingOK
    <3> QED
      BY <2>3, <3>3, <3>4
  <2>5. CASE /\ Version(file) = CURRENT_DB_VERSION
             /\ \A i \in DOMAIN writes : Late(writes[i])
    <3>1. Late(w) /\ \A i \in DOMAIN writes' : Late(writes'[i])
      BY <2>1, <2>3, <2>5
    <3>2. /\ Version(file') = Version(file) /\ file.tables \subseteq file'.tables
          /\ file'.notes = file.notes
          /\ file'.config["USN"] = IF IsUSN(w) THEN 0 ELSE file.config["USN"]
      BY <1>1, <2>1, <3>1, Effects DEF Late
    <3>3. Promised(file')
      BY <1>1, <3>2 DEF Promised
    <3>4. IsResync(writes) => IsUSN(w)
      BY <2>3 DEF IsResync, IsUSN, Set
    <3>5. file.notes.upto \in Nat
      BY <1>1 DEF Good, IsFile
    <3>6. Version(file') # None /\ ~ halfUpgraded' => Claims(file')
      BY <1>1, <2>1, <3>2, <3>4, <3>5 DEF VInv, ClaimsOK, Claims
    <3> QED
      BY <2>1, <2>2, <2>5, <3>1, <3>2, <3>3, <3>6
         DEF VInv, VersionOK, PlanOK, ClaimsOK, SavingOK
  <2> QED
    BY <1>1, <2>4, <2>5 DEF VInv, PlanOK
<1> QED
  BY <1>3, <1>4, <1>5

\* A new file promises nothing, and has the plan of init_db before it.
LEMMA VersionCreated == ASSUME IInv, VInv, CreateFile PROVE VInv'
<1>1. /\ file' = EmptyFile /\ pc' = "write"
      /\ writes' = InitWrites(auth, auth.user, cmd.backend)
  BY DEF CreateFile
<1>2. Planned(file', writes')
  BY <1>1, InitPlan
<1>3. Version(file') = None
  BY <1>1 DEF EmptyFile, Version, ConfigNames
<1> QED
  BY <1>1, <1>2, <1>3 DEF VInv, VersionOK, Promised, TablesOf, PlanOK, ClaimsOK, SavingOK

\* The old file is removed.
LEMMA VersionRemoved == ASSUME IInv, VInv, InitializeStorage PROVE VInv'
<1>1. CASE Exit
  BY <1>1, VersionExits DEF InitializeStorage
<1>2. CASE ~ Exit
  <2>1. ~ HasFile' /\ pc' = "create"
    BY <1>2 DEF InitializeStorage, IInv, StepOK, HasFile
  <2> QED
    BY <2>1 DEF VInv, VersionOK, PlanOK, ClaimsOK, SavingOK
<1> QED
  BY <1>1, <1>2

\* What is stored is known before the number is saved.
LEMMA VersionScanned == ASSUME IInv, VInv, Scan PROVE VInv'
<1>1. CASE Exit
  BY <1>1, VersionExits DEF Scan
<1>2. CASE ~ Exit
  <2> DEFINE USN == file.config["USN"]
  <2>1. PICK count \in USN .. MaxUSN :
           /\ file' = [file EXCEPT !.notes =
                          [owner |-> auth.user,
                           upto  |-> IF @.upto >= USN THEN count ELSE @.upto]]
           /\ writes' = <<Set("USN", count)>>
    BY <1>2 DEF Scan
  <2>2. /\ pc = "scan" /\ Good(file) /\ USN # None /\ HasFile /\ cmd.name = "sync"
        /\ pc' = "saveUSN" /\ cmd' = cmd /\ halfUpgraded' = halfUpgraded
    BY <1>2 DEF Scan, IInv, StepOK, FileOK, HasFile, bounds
  <2>3. USN \in Nat /\ count \in Nat /\ count >= USN
    BY <2>1, <2>2, CommandsAssumption DEF Good, IsFile
  <2>4. /\ file'.tables = file.tables /\ file'.config = file.config
        /\ file'.notes.upto = IF file.notes.upto >= USN THEN count ELSE file.notes.upto
    BY <2>1, <2>2 DEF Good, IsFile
  <2>5. Version(file) # None /\ ~ halfUpgraded => file.notes.upto >= USN
    BY <2>2 DEF VInv, ClaimsOK, Claims
  <2>6. VersionOK'
    BY <2>2, <2>4 DEF VInv, VersionOK, Promised, Version
  <2>7. ClaimsOK'
    BY <2>2, <2>3, <2>4, <2>5 DEF ClaimsOK, Claims, Version
  <2>8. SavingOK'
    <3>1. Version(file') # None /\ ~ halfUpgraded' => count <= file'.notes.upto
      BY <2>2, <2>3, <2>4, <2>5 DEF Version
    <3> QED
      BY <2>1, <2>3, <3>1 DEF SavingOK
  <2> QED
    BY <2>2, <2>6, <2>7, <2>8 DEF VInv, PlanOK
<1> QED
  BY <1>1, <1>2

\* The number that is saved is that of the notes.
LEMMA VersionNumbered == ASSUME IInv, VInv, SaveUSN PROVE VInv'
<1>1. /\ pc = "saveUSN" /\ Good(file) /\ HasFile /\ cmd.name = "sync"
      /\ file' = Do(file, Head(writes)) /\ halfUpgraded' = halfUpgraded
      /\ pc' \in {"idle", "sharedNotes"}
  BY DEF SaveUSN, IInv, StepOK, FileOK, HasFile, bounds, Ended
<1>2. PICK n \in Nat : /\ writes = <<Set("USN", n)>>
                       /\ Version(file) # None /\ ~ halfUpgraded => n <= file.notes.upto
  BY <1>1 DEF VInv, SavingOK
<1>3. Head(writes) = Set("USN", n)
  BY <1>2
<1>4. /\ Version(file') = Version(file) /\ file.tables \subseteq file'.tables
      /\ file'.notes = file.notes /\ file'.config["USN"] = n
  BY <1>1, <1>3, Effects DEF Set, IsVersion, IsUSN, IsDrop
<1>5. Promised(file')
  BY <1>1, <1>4 DEF VInv, VersionOK, Promised
<1>6. file.notes.upto \in Nat
  BY <1>1 DEF Good, IsFile
<1>7. Version(file') # None /\ ~ halfUpgraded' => Claims(file')
  BY <1>1, <1>2, <1>4, <1>6 DEF Claims
<1> QED
  BY <1>1, <1>5, <1>7 DEF VInv, VersionOK, PlanOK, ClaimsOK, SavingOK

\* sync and reauth store a credential, and nothing else.
LEMMA VersionUntouched == ASSUME IInv, VInv, Persist \/ StoreToken PROVE VInv'
<1>1. pc \in {"persist", "storeToken"} /\ (pc = "storeToken" \/ cmd.name = "sync" => Good(file))
  BY DEF Persist, StoreToken, IInv, StepOK, FileOK, Renewing, Using, Other
<1>2. /\ halfUpgraded' = halfUpgraded /\ pc' \in {"client", "idle"}
      /\ file' = file \/ ((pc = "storeToken" \/ cmd.name = "sync")
                          /\ file' = set_config_value(file, "auth_token", auth))
      /\ pc' = "client" => cmd' = cmd
  BY DEF Persist, StoreToken, Continue, Ended, bounds
<1>3. Same(file, file')
  BY <1>1, <1>2, CredentialKept DEF Same
<1>4. HasFile' => HasFile
  BY <1>1, <1>2 DEF HasFile, IInv, StepOK
<1> QED
  BY <1>1, <1>2, <1>3, <1>4, VersionKept

\* Death.  A version 0 file may be left without a number for its notes.
LEMMA VersionDies == ASSUME IInv, VInv, Die PROVE VInv'
<1>1. /\ pc' = "idle" /\ file' = file
      /\ halfUpgraded' = (halfUpgraded \/ (pc = "write" /\ Raise \in {writes[i] : i \in DOMAIN writes}))
  BY DEF Die, Ended
<1>2. pc = "write" /\ IsResync(writes) => halfUpgraded'
  <2> SUFFICES ASSUME pc = "write", IsResync(writes) PROVE halfUpgraded'
    OBVIOUS
  <2>1. \E S : writes \in Seq(S)
    BY DEF IInv, WritesOK
  <2>2. 2 \in DOMAIN writes /\ writes[2] = Raise
    BY <2>1 DEF IsResync
  <2> QED
    BY <1>1, <2>2
<1> QED
  BY <1>1, <1>2, VersionKept DEF Same, HasFile

\* A database of an older version keeps what its version promises.
LEMMA VersionInit == Init => VInv
<1> SUFFICES ASSUME Init PROVE VInv
  OBVIOUS
<1>1. file # None => Promised(file) /\ Claims(file)
  <2> SUFFICES ASSUME NEW version \in 0 .. 6, NEW u \in Users,
                      file = OldFile(version, 1, [kind |-> "monolith", user |-> u, gen |-> 0], u)
               PROVE  Promised(file) /\ Claims(file)
    BY DEF Init
  <2>1. /\ file.config["DB_VERSION"] = IF version = 0 THEN None ELSE version
        /\ file.config["USN"] = 1 /\ file.notes.upto = 1
        /\ file.tables = {"notebooks", "notes", "config"}
                         \cup (IF version >= 4 THEN {"notebooks_linked"} ELSE {})
                         \cup (IF version >= 6 THEN {"tasks", "reminders"} ELSE {})
    BY DEF OldFile, EmptyFile, ConfigNames
  <2> QED
    BY <2>1, LoginAssumption DEF Promised, Claims, Version, TablesOf, CURRENT_DB_VERSION
<1> QED
  BY <1>1 DEF Init, VInv, VersionOK, PlanOK, ClaimsOK, SavingOK, HasFile

\* VInv holds in every reachable state of Commands.
THEOREM Versions == Spec => []VInv
<1>1. ASSUME IInv, VInv, [Next]_vars PROVE VInv'
  <2>1. CASE CheckVersion \/ Write \/ InitializeStorage \/ CreateFile
    BY <1>1, <2>1, VersionPlanned, VersionWritten, VersionRemoved, VersionCreated
  <2>2. CASE Scan \/ SaveUSN \/ Persist \/ StoreToken \/ Die
    BY <1>1, <2>2, VersionScanned, VersionNumbered, VersionUntouched, VersionDies
  <2>3. CASE Backend \/ StoredToken \/ Resolve \/ Refresh
    <3>1. pc # "write" /\ pc' \notin {"write", "saveUSN"} /\ UNCHANGED <<file, halfUpgraded>>
          /\ (pc' = "idle" \/ (pc # "idle" /\ cmd' = cmd))
      BY <2>3 DEF Backend, StoredToken, Resolve, Refresh, Continue, Exit, Ended, bounds
    <3> QED
      BY <1>1, <3>1, VersionEnds DEF HasFile
  <2>4. CASE Verify \/ SyncClient \/ CheckUser \/ SharedNotes \/ TasksPhase
    <3>1. pc # "write" /\ pc' \notin {"write", "saveUSN"} /\ UNCHANGED <<file, halfUpgraded>>
          /\ (pc' = "idle" \/ (pc # "idle" /\ cmd' = cmd))
      BY <2>4 DEF Verify, SyncClient, CheckUser, SharedNotes, TasksPhase, Continue, Exit,
         Ended, bounds
    <3> QED
      BY <1>1, <3>1, VersionEnds DEF HasFile
  <2>5. CASE LoginStep \/ LoginServes \/ LoginInputs \/ LoggedIn
    <3>1. pc # "write" /\ pc' \notin {"write", "saveUSN"} /\ UNCHANGED <<file, halfUpgraded>>
          /\ (pc' = "idle" \/ (pc # "idle" /\ cmd' = cmd))
      BY <2>5 DEF LoginStep, LoginServes, LoginInputs, LoggedIn, Exit, Ended, bounds, command
    <3> QED
      BY <1>1, <3>1, VersionEnds DEF HasFile
  <2>6. CASE InitDb \/ Reauth \/ Sync
    <3>1. pc # "write" /\ pc' \notin {"write", "saveUSN"} /\ UNCHANGED <<file, halfUpgraded>>
          /\ (file # None \/ cmd'.name = "init_db")
      BY <2>6 DEF InitDb, Reauth, Sync, Start
    <3> QED
      BY <1>1, <3>1, VersionEnds DEF HasFile
  <2>7. CASE UNCHANGED vars
    BY <1>1, <2>7 DEF vars, command, bounds, VInv, VersionOK, PlanOK, ClaimsOK, SavingOK, HasFile
  <2> QED
    BY <1>1, <2>1, <2>2, <2>3, <2>4, <2>5, <2>6, <2>7 DEF Next, Step
<1> QED
  BY <1>1, VersionInit, Invariance, PTL DEF Spec

\* TablesComplete: a file of the current version has every table, whichever
\* upgrade or creation died and was repeated.
THEOREM TablesAreComplete == Spec => []TablesComplete
<1>1. IInv /\ VInv => TablesComplete
  BY TableNames, LoginAssumption DEF IInv, FileOK, Good, IsFile, VInv, VersionOK, HasFile,
     Promised, TablesOf, Version, CURRENT_DB_VERSION, Names, TablesComplete
<1> QED
  BY <1>1, Invariance, Versions, PTL

\* ClaimsNothingMissing: no number is saved beyond the notes that are there.
THEOREM NothingMissing == Spec => []ClaimsNothingMissing
<1>1. VInv => ClaimsNothingMissing
  BY LoginAssumption DEF VInv, ClaimsOK, Claims, HasFile, Version, CURRENT_DB_VERSION,
     ClaimsNothingMissing
<1> QED
  BY <1>1, Versions, PTL
================================================================================
