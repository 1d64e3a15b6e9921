# evernote-backup: formal models

`evernote-backup` copies an Evernote account into a local SQLite database
(`sync`) and writes the database out as ENEX files (`export`). This directory
holds TLA+ models of its core, the TLC instances that check them and proofs for
TLAPS. The modules are translated from the Python source in
`src/evernote_backup`; `PROJECT.json` names the lines each definition stands for.

## Inventory

| Part | Source | State | Operations | What must be right |
|---|---|---|---|---|
| Storage | `note_storage.py` | tables `notes`, `notebooks`, `notebooks_linked`, `shared_notes`, `tasks`, `reminders`, `config` | one method = one transaction | what a crash can leave behind; what a `replace` drops |
| Own account | `note_synchronizer.py`, `evernote_client_sync.py` | config `USN`; the chunk in hand | `_sync_chunks`, `_process_chunk`, `_expunge` | `USN` is never ahead of the tables; nothing alive is deleted |
| Blacklist | `note_synchronizer.py`, `cli_app.py` | config `blacklist_notes`, `blacklist_notebooks` | `manage blacklist`, `_filter_blacklisted_notes` | listed notes are neither downloaded nor forgotten |
| Linked notebooks | the same | `notebooks_linked.usn` | `_sync_linked_notebook`, `_expunge_linked_assoc`, `auth_linked_notebook` | each notebook's number is honest; leaving one spares what is shared otherwise |
| Shared notes | the same | `shared_notes`, config `last_connection_shared_notes` | `iter_sync_chunks_v2`, `_process_shared_notes_chunk_v2` | tracked exactly while shared |
| Tasks, reminders | the same | `tasks`, `reminders`, config `last_connection_tasks` | `_sync_chunks_v2_tasks`, `_process_chunk_v2` | the timestamp is honest |
| Download pool | `note_synchronizer.py` | executor queue, futures, memory counter, `stop` | `NoteClientWorker.__call__`, `_process_download_chunk`, `NoteClientMemoryManager` | bounded memory, no lost wake-up, an abort ends |
| Worker clients | `note_synchronizer.py` | `_note_client`, per-thread `clients` | `__call__`, `download_note` | each note is asked for with its own authorisation |
| Transport | `evernote_client*.py` | none that lasts | thrift calls with retries | bounded retries |
| Authentication | `cli_app_auth*.py`, `evernote_client_oauth.py`, `token_util.py`, `desktop_session.py` | config `auth_token`, `user`; a callback server thread and a thread that reads a pasted URL | `reauth`, `init-db`, token refresh | a renewed token is saved before the sync goes on with it (`users/me` is asked before); a database belongs to one account; a login ends |
| Creation, upgrade | `note_storage.py`, `cli_app.py` | the file's tables, config `DB_VERSION` | `init_db`, `upgrade_db` | what a crash leaves is repeated or refused |
| Export | `note_exporter*.py`, `note_formatter*.py` | files | `NoteExporter` | each note ends whole in one file; files of before stay |
| Check, list | `note_checker.py`, `note_lister.py` | none | `manage check --mark-corrupted` reschedules notes | what is given up is what could not be read |
| Command line, logging | `cli*.py`, `log_util.py` | none | option parsing | |

How they interact: `sync` runs, in one process and in this order, the own
account, the linked notebooks, the shared notes, the download phase and the
tasks. All of them meet in the table `notes`, where a row without content means
"scheduled". The scans schedule, the download phase fills; the blacklist
filters between them. Only the download phase is concurrent: worker threads
download while the main thread stores. Other clients change the account at any
moment. Every method of the storage commits, so a death of the process keeps a
prefix of the transactions, and the next run starts from the database alone.

The hard behaviours are therefore the changes of the account during a scan, a
death between any two transactions, downloads that are stale when stored, one
note that reaches the user along two paths, the two locks of the memory gate,
the abort path, and threads that share an attribute. Around `sync` there are
commands that each may die after any commit: creation and upgrade of the file,
a login that waits for two threads at once, a refresh that the service may
answer with a new refresh token; and commands that read the tables while
another process syncs. `PROJECT.json` lists each at its line under `hazards`.

## Modules

| Module | What it models |
|---|---|
| `NoteStorage` | tables as functions, each method as an operator from the old table to the new one |
| `NoteSync` | `sync()` for the user's own account, with blacklist, download phase, crashes and a changing account |
| `BackupContract` | what the database promises about one account: the abstract specification that `NoteSync` implements |
| `NoteSync_proofs` | theorems about `NoteSync` |
| `SyncEvents` | `_parse_sync_event_data`: a fold over the events of one message |
| `ForeignSync` | `sync()` for notes of other people: linked notebooks, single-note shares and the authorisation step (extends `NoteStorage` and `SyncEvents`) |
| `ForeignSync_proofs` | theorems about `ForeignSync` |
| `DownloadPool` | executor, memory gate, main thread, interrupt and abort |
| `DownloadPool_proofs` | theorems about `DownloadPool` |
| `WorkerClients` | the clients of the worker threads |
| `WorkerClients_proofs` | theorems about `WorkerClients` |
| `TaskSync` | the last phase of `sync()`: tasks and reminders from the second protocol, and what makes events of it get lost |
| `TaskSync_proofs` | theorems about `TaskSync` |
| `DatabaseFile` | the database as a file; `init_db` and `upgrade_db` as sequences of writes |
| `Login` | `get_auth_token`: password, desktop session, pasted URL, and the callback server with its threads |
| `Commands` | `init-db`, `reauth` and `sync` one after the other on one file, with a death between any two steps (composes `Login` and `DatabaseFile`) |
| `Commands_proofs` | theorems about `Commands` |
| `NoteFormat` | the formatter's conversions of content and of times, as functions |
| `Exporter` | `export`, `manage list` and `manage check` beside a sync of another process (composes `NoteFormat`) |
| `Exporter_proofs` | theorems about `Exporter` and the functions of `NoteFormat` |
| `FiniteInduction` | lemmas for proofs: induction over finite sets and over numbers, without a predicate as a parameter |
| `MC*` | instances for TLC |

**Correspondence.** Variables carry the name of the table, config value or
attribute they stand for. `pc` is the next step of `sync()`; an action is the
code from one commit (or answer of a server) to the next. So `ExpungeNotebooks`,
`ExpungeNotes`, `AddNotebooks`, `AddNotes` and `SetUSN` are the five
transactions of one chunk, and `Die` may come between any two. A method of the
storage whose list is empty is skipped by the code; here it is a step that
changes no table.

**Abstractions.** The data of a note is the number of the change it was
downloaded at: content, title and resources are not told apart. 0 is SQL NULL.
A chunk ends at any number up to the account's (the service may return fewer
objects than asked). In `ForeignSync` a linked notebook and its notebook have
one name, one clock numbers all changes, a note does not leave its notebook,
and the own account matters only for the notebooks the user left. A message of
the second protocol is any non-empty prefix of the events that are due; items
the parser drops are the kind `other`. In `DownloadPool` a download is a size,
in `WorkerClients` a request is the token, shard and access it was made with.

In `TaskSync` the row of a task is the position of the event it was written
from in the service's log. Times may be equal, and a message may be
undecodable; `MayBeLost` names the events that this can cost, and the
properties hold for all others.

In `Commands` a step is one request, one commit or one change of the file. The
scan of notes, which `NoteSync` models commit by commit, is two commits: the
notes, then the number. A token is its kind, its account and, for OAuth, the
count of refresh tokens it belongs to; whether an access token is near its end
is a choice, as time is not modelled. `Login` abstracts cryptography, PKCE and
the parsing of files to success or failure. The thread that reads a pasted URL
is not looked at once the wait is over: it is a daemon that nobody joins.
Indexes are left out: they do not change what a query returns. `halfUpgraded`,
like `touched` and `written` of `Exporter`, is there for the properties.

In `Exporter` names are members of a small set and `Safe` says what replacing
and cutting characters makes of them: a stem and the numbers appended to it. A
directory is taken as it is, only a file gets a number; the dictionary that
`SafePath` keeps of directories is left out, as it holds what would be computed
again. Notebooks and notes are exported in any order. Each `SELECT` is a step,
and a sync of another process may write in between unless a cursor has rows
left (`Locked`). SQLite holds the shared lock of a `SELECT` until it has
returned its last row, and Python's `sqlite3` steps one row ahead: while the
trash is exported or a check runs, nothing can be written, until the last row
is in hand. A check fetches a row (`FetchNote`) and marks it in a later step, by
guid alone (`MarkNote`); the trash is written from the rows as they were
fetched. The sync of the other process keeps titles. A death leaves whole notes
of the file that is open; that it may also leave a part of one is not modelled,
and no property claims the opposite. Content is a sequence of the tokens that
matter to a CDATA section, a time a day and a second; a date is one of the
Gregorian calendar (`IsDate`), so there is no 30 February to be right about.

**External.** What the service and Python's `threading` and
`concurrent.futures` do is modelled from how the code uses them and marked
`external` in the map.

**Fault operators.** An operator whose comment starts with "Fault:" is a
plausible bug in the definition next to it. No specification uses it; replacing
that definition by it must violate the property it is listed with under
`mutants`. It shows that the property depends on the code.

## Runs

Every run is `tlc -config <cfg> <module>`.

| Run | Instance | Result |
|---|---|---|
| `note_sync` (`MCNoteSync.cfg`) | 2 notes, 1 notebook, 5 changes of the account, 1 death or failed download | holds: `TypeOK`, `CursorSound`, `InFlightSound`, `WipedOnlyWhenChanged`, `KeepsContract`, `EventuallyMirrored` (175,095 states) |
| `note_sync_blacklist` | 1 note, 2 notebooks, 5 changes, 2 edits of the blacklist | holds: `CursorSound`, `BlacklistHonoured`, `OnlyExpungedDeleted`, `EventuallyMirrored` (2.4 million states) |
| `download_pool` | 2 workers, 4 notes in chunks of 3, limit 2, sizes 1 and 2, 1 failure, 1 interrupt | holds: `TypeOK`, `MemoryAccounted`, `MemoryBounded`, `NoneLost`, `Completes` |
| `download_abort` | the same, an interrupt only | **violated**: `AbortEnds` |
| `worker_clients` | 1 worker, 4 notes with 3 authorisations, 2 attempts | holds: `RightClient`, `CacheExact` |
| `worker_clients_race` | 2 workers | **violated**: `RightClient` |
| `foreign_sync` | 1 note, 1 linked notebook, 4 changes (clock 1 to 5), 1 death | holds: `TypeOK`, `LinkedCursorSound`, `SharedCursorSound`, `EventuallyHeld` (also at clock 6, 1.5 million states) |
| `foreign_sync_closed` | a note of the linked notebook and a note of somebody else, 5 changes, no faults | **violated**: `InaccessibleSkipped` |
| `task_sync` | 1 task, 1 reminder, 3 events, 1 death or undecodable message | holds: `TypeOK`, `TasksCursorSound`, `TasksMirrored` (739,120 states) |
| `commands` | 2 accounts, 2 desktop sessions (one without a key), 2 commands, 2 changes, 1 rotation of a token, 1 death | holds: `TypeOK`, `OneOwner`, `AccessKept`, `TablesComplete`, `ClaimsNothingMissing`, `RightAccount`, `LoginEnds` (371,109 states) |
| `export` | 2 notes, 2 notebooks, 3 tables of colliding names, 1 command, 1 write of another process, 1 death, 7 times | holds: `TypeOK`, `ExportComplete`, `ContentKept`, `DatesRight`, `ListComplete`, `CheckMarks`, `OldFilesKept`, `GivenUpAsRead` (2.1 million states) |
| `export_all` | 3 notes, 3 notebooks: two names that become one, and one without a row; `--overwrite`, undisturbed | **violated**: `AllExported` |

What they show:

- `CursorSound`: the saved `USN` is a promise that everything up to it is in
  the tables. The next scan never asks for older changes, so a gap would be for
  ever. It holds in every state, i.e. wherever the process dies.
- `InFlightSound`: why that is so although a chunk is a snapshot. An object in
  the chunk that changed since has a number beyond the chunk and will be
  scanned again; the same for a stale download. It is the inductive
  strengthening of `CursorSound` and is checked before it is proved.
- `KeepsContract`: the refinement. `BackupContract` sees of the database only
  the saved number and, per note, nothing / scheduled / a version.
- `WipedOnlyWhenChanged`, `OnlyExpungedDeleted`, `BlacklistHonoured`: what no
  step of a sync may do.
- `EventuallyMirrored`, `EventuallyHeld`: repeated runs converge, after any
  interruption and also for skipped and once blacklisted notes.
- `LinkedCursorSound`, `SharedCursorSound`: the same promise for the number of
  a linked notebook and for the timestamp of the shares, with both paths
  writing to one row.
- `MemoryAccounted`, `MemoryBounded`, `Completes`, `NoneLost`: the counter is
  exact under both threads, exceeds the limit by less than one largest note per
  worker, no wake-up is missed, and all chunks are stored or given up.
- `TasksCursorSound`, `TasksMirrored`: the saved time leaves no gap, although
  messages are cut anywhere and differently the next time, hold deletions and
  updates of one task, and their transactions may be interrupted. The two
  exceptions are what the code accepts: it warns of an undecodable message and
  goes on, and it asks for events after the last time it has seen.
- `AccessKept`: once a sync has saved the credential it renewed, the database
  holds the refresh token that the service honours, so whatever fails afterwards
  the next command still gets in. What it does not say: before, `users/me` is
  asked with a token that is not saved yet (see below).
- `OneOwner`, `TablesComplete`, `ClaimsNothingMissing`: what a command that
  died has left is never taken for a complete database of another account or
  version. The last one excepts a death inside the upgrade
  of a version 0 database, which saves the version before it resets `USN`.
- `RightAccount`, `LoginEnds`: a login takes the account asked for, and ends
  when its answer is there, by browser or by paste.
- `ExportComplete`, `ListComplete`: a successful command has handled every note
  it goes through exactly once: of an export, every note of every notebook that
  has a row when the notebooks are read, and the trash if asked for. Notes whose
  notebook has no row are in neither; what that makes of the promise to export
  all notes is finding 5. A row that a sync empties meanwhile is an error and
  not a gap. `ContentKept`, `DatesRight`: what is in a file is the note, to
  a reader of the file. `OldFilesKept`: without `--overwrite` no file that was
  there is touched. `CheckMarks`, `GivenUpAsRead`: a check that was asked
  to mark gives up every row that it could not read; and a step that gives up
  content is the mark of a row that was corrupt when it was fetched, and unless
  that was the last row the content in the table is still the one fetched. The
  new content of that row is wiped (see below).

**Findings** (details in `PROJECT.json`):

1. `download_abort`: a worker waits for memory before it looks at the stop
   flag. A download that ends after the handler reset the counter can fill it
   again; the next worker sleeps at the gate with nobody left to wake it, and
   the process does not end.
2. `worker_clients_race`: `_note_client` is shared by all threads although the
   clients are cached per thread, so a note may be asked for with the token or
   on the shard of another, and a client may be cached for an authorisation it
   is not configured for.
3. `foreign_sync_closed`: one linked notebook that was closed by its owner
   while a note of it was scheduled makes every later run fail before any
   download, although the scan skips such notebooks on purpose.
4. `export_all`, the first loss of its trace: with `--overwrite` names are not
   made unique within one command either, so of two notebooks (or notes, with
   `--single-notes`) whose names become one only the last is in the output, and
   the command reports success.
5. `export_all`, the second loss, which does not need `--overwrite`: an active
   note whose notebook has no row (it was expunged, and the run ended before the
   chunk that files the note elsewhere or deletes it) is left out of an export
   without a word.

**What the properties except.** The steps are in the models, the properties that
a run checks leave them out, and no run is devoted to them:

- An interrupt while the futures of a chunk are being submitted, before the
  `try`, neither sets the stop flag nor resets the counter (`InterruptSubmit`).
  The workers go on with the queue, nobody stores and frees any more, and once
  the limit is reached one sleeps at the gate as in finding 1. `AbortEnds` is
  about an interrupt inside the `try`; asked of `unwind` as well, TLC refutes
  it by this trace.
- A renewed credential is used for `users/me` before the caller saves it. If
  that request fails after the service has replaced the refresh token, the
  database holds one that is refused. `AccessKept` excepts the steps `verify`
  and `persist`.
- The mark of a corrupt note is by guid alone. With the last row in hand the
  cursor no longer keeps a sync out, and a row that was stored anew in between
  is emptied. `GivenUpAsRead` excepts that row.
- What `MayBeLost` of `TaskSync` and `halfUpgraded` of `Commands` name.

**Bounds.** Five changes are what the deepest scenario of the own account needs
(create two notebooks and a note, move it, expunge the old notebook); one death
suffices because every death leads back to `idle` with only the database left,
and the next run starts like the first. Two notes tell "this note" from "some
other note"; two workers, a limit of two and three chunk places make every
phase of the gate (below, at and above the limit, asleep, woken) happen. Three
events are an update, a deletion and one of equal or later time. Two commands
are one that leaves a file and one that goes on with it; the first may start
from a file of any version. One command suffices for `Exporter`, because
nothing but the tables and the directory outlives a command and `FileSystems`
has a file of an earlier export with a colliding name. The times of
`DatesRight` are the day before the calendar begins, the last day of 1969, the
day after a February without and one within a February with a leap day (2100,
2400), the day on which one of the platforms gives up (3000), and the last day
of 9999 and the next. The counters `faults`, `edits`, `failures`, `interrupts`,
`updateCount`, `clock`, `commands` and `changes` exist only to bound the
instances.

**Fairness.** `NoteSync` and `ForeignSync`: weak fairness of the steps of
`sync()` as a whole. A running process takes its next step, and the README of
the project tells users to schedule `sync`; nothing is assumed of the account,
of faults or of edits (they end because they are bounded). A skipped live note
costs a fault, so a download that keeps failing is excluded; a skipped dead
note does not. `DownloadPool`: weak fairness of each thread: the operating
system schedules threads, connections and retries time out. `TaskSync`: as for
`NoteSync`. `Commands`: weak fairness of a running command, and of the end of a
connection to the callback server: browsers close a connection they opened
ahead and did not use. This is an assumption on browsers and not on the code:
the handler of the callback has no timeout, and `LoginEnds` says nothing of a
connection that stays open. Nothing is assumed of the person who logs in.

## Proofs

Every invariant and every action property that a passing run checks is also a
theorem, for any sets of notes, notebooks, accounts and workers and any bounds.
A theorem needs the `ASSUME`s of its module and what is named below, nothing
else. Each inductive invariant also holds on the instance of its component in
TLC, with `Nat` cut to an interval where a formula enumerates it.

The library's induction theorems take a predicate as a parameter, which the
provers cannot instantiate. `FiniteInduction` has the same facts about sets: a
family of subsets of a finite set has a smallest member (`SmallestSubset`), a
set of numbers a least one (`LeastNat`), and a set that has 0 and with every
number the next has them all (`NatSet`). A proof collects the counterexamples
in a set and looks at the smallest. From this the module derives what `Max` and
`Min` of a set of numbers and the sum over a finite set are.

`NoteSync_proofs`:

- `Invariance`: `Spec => []IInv` with
  `IInv == TypeOK /\ CursorSound /\ InFlightSound`;
- `TypeCorrect`, `CursorIsSound`, `InFlightIsSound`: its parts;
- `DeletesOnlyExpunged`, `KeepsContent`, `HonoursBlacklist`: the action
  properties, from `IInv` and the lemma `RowStep` on what one step does to a row;
- `ImplementsContract`: every step of `NoteSync` is a step or a stutter of
  `BackupContract`.

Assumptions: `NoneAssumption` and `NoneIsNoContent` (the value for "no row" is
no row), `BoundsAssumption`.

`CursorSound` alone is not inductive: `SetUSN` raises the number, so one must
know that the chunk in hand held everything in its window and that the tables
reflect it by now (`ChunkSound`, `ChunkApplied`), while the account changes
(`ChunkNotesExact` says why a snapshot stays right for its window); and `Store`
overwrites a row, so one must know that a stale result belongs to a note that
will be scanned again (`ResultsSound`). The proof follows the program: account
changes, then the transactions of a chunk, then the download phase.

`ForeignSync_proofs`:

- `Typing` (`TypeOK`), `LinkedCursor` (`LinkedCursorSound`) and `SharedCursor`
  (`SharedCursorSound`), from `Invariant`:
  `IInv == Typed /\ Known /\ LinkedInv /\ SharedInv`.

`Known` is about the servers alone: one clock numbers every change, and the
last event that starts or ends a share tells who is one (`Told`). A server
therefore changes a note only beyond every number that the program claims, and
what is gone stays gone. `LinkedInv` repeats for a linked notebook what
`NoteSync` has for the account (`Scanned`, `Window`, `Applied`). `SharedInv`
says of a message what the parser makes of it (`Parsed`, by induction over the
events), how far it is applied (`Processed`, `AtHand`), and what the tables
know of a note about which no event is due (`Tracked`, `HasRow`, `UpToDate`).
The two meet in one row: where a row may be filed (`Filed`), and that a row
about to be dropped is in no linked notebook (`Dropped`), keep one from undoing
the other. The main step is the one that saves the time of a message
(`SetConnection`): what the message said last of a note becomes what the tables
know.

`TaskSync_proofs`:

- `Typing` (`TypeOK`) and `CursorSound` (`TasksCursorSound`), from `Invariant`:
  `IInv == Typed /\ Ordered /\ Streamed`.

`Streamed` says what the tables show before the saved time (`Saved`), what of
the stream they show already (`Sent`), and what the message in hand has still
to write: each update the last event about its item, each deletion an event of
the message. That a deletion and an update of one item may share a message,
and that the transactions of a message come one by one, is why neither can be
said of the tables alone.

`DownloadPool_proofs`:

- `TypeCorrect`, `LosesNothing` (`NoneLost`), from `Invariance`. A run that
  ends normally has stored or given up every note, because each note is at
  every moment in exactly one place on its way: not submitted, queued, with one
  worker, in a future, or handled (`HandOK`, `PlacesOK`, `HandledOK`).
- `GateBounds` (`MemoryBounded`), assuming `Finite`: finitely many workers, and
  a largest note. `MemoryBounded` alone is not inductive; `RoomLeft` is: what is
  counted leaves room for a largest note of every worker that has passed the
  gate and not counted its note yet.
- `AccountsForMemory` (`MemoryAccounted`), assuming finitely many notes: the
  counter is a sum over the notes that are downloaded and not written, and a
  download or a store takes one note into that set or out of it.

`WorkerClients_proofs`, assuming `OneWorker`:

- `AsksRight` (`RightClient`) and `CachesExactly` (`CacheExact`), from
  `Invariance`: the attribute points to a client that is ready for the note at
  hand, or to a new one that is in no cache while it is configured. Without
  `OneWorker` the run `worker_clients_race` refutes it.

`Commands_proofs`:

- `Typing` (`TypeOK`), `KeepsOneOwner` (`OneOwner`) and `KeepsAccess`
  (`AccessKept`), from `Invariance`. `OneOwner` must hold wherever a
  command dies, so the invariant says of the writes that are left that they
  touch neither user nor credential, or are those of `init-db` to a file that
  has no owner yet (`WritesOK`); and of the credential in hand that it is the
  stored one or a newer one of the same account, or was compared with the user
  of the file (`StoredOK`).
- `KeepsAccess` adds `RenewedOK`: where the credential in hand may differ from the
  stored one, and which count of refresh tokens the service is at then. It is
  inductive on its own beside `IInv` (`RenewedInv`).
- `ImportsRightAccount` (`RightAccount`), from where a login stands with the
  session it has picked.
- `TablesAreComplete` (`TablesComplete`) and `NothingMissing`
  (`ClaimsNothingMissing`), from `Versions`:
  `VInv == VersionOK /\ PlanOK /\ ClaimsOK /\ SavingOK`. The version that a
  file claims, and the writes that a command has left, in the order they come
  in, determine which tables there are. So the invariant is about every prefix
  of an upgrade at which a command may have died.

They assume `LoginAssumption`: `None` is neither a user nor a number.

`Exporter_proofs`:

- `KeepsOldFiles` (`OldFilesKept`), without an invariant: without `--overwrite`
  a path is opened only if there is no such file, and a step touches the file
  that is open and no other.
- `TypeCorrect`, `MarksAllCorrupt` (`CheckMarks`) and `GivesUpAsRead`
  (`GivenUpAsRead`), from `Invariance`, which says when a file is open
  (`PathOK`), what a check still has to look at, and that the row in hand is
  the row of the table while others are left (`ScanOK`).
- `ListsAll` (`ListComplete`) and `ExportsAll` (`ExportComplete`), from
  `Reading`: every note of every source is left to read, in hand, or written
  (or shown), whatever another process writes in between (`TurnsOK`, `InHand`,
  `ListInv`, `ExportInv`). `AskedSources` says that
  the notes an export comes upon are the ones its options ask for, but for
  those whose notebook has no row. `ExportsAll` assumes `~ Overwrite`; what the
  command promises beyond that is refuted by `export_all`.
- `KeepsContent` (`ContentKept`) and `DatesAreRight` (`DatesRight`), from
  `Pages`: each entry of each file that a command has opened is the note it is
  about, in the directory of its source (`PagesOK`), and what is in hand will
  be (`OpenOK`). On top of it stand two facts about `NoteFormat`, each for
  every input. `ContentRead`: a reader passes over the seam that `fmt_content`
  puts into every end of a section and finds the content. The lemmas say where
  each token of the content comes to stand in the text and which ends the text
  has. `TimesRight`: the arithmetic from a number of days to a date, with eras
  of 400 years and years that begin in March, gives a date of the calendar with
  that number of days, for all times and every first day that a platform cannot
  represent; and what is beyond the calendar becomes its end.

They assume `TablesAssumption` on the instances of the tables (content is a
sequence of tokens, a time two integers), `ExporterAssumption` (the trash is no
notebook) and, all but the first, `NoneIsNoPath`: the value for "no file is
open" is no path.

Only model-checked: liveness (`EventuallyMirrored`, `EventuallyHeld`,
`TasksMirrored`, `Completes`, `LoginEnds`), which rests on fairness and
`ENABLED` and is out of the prover's reach. The four runs that expect a
violation refute their property on an instance; there is nothing to prove.


## Not modelled

The transport's HTTP, certificates and retry loop (a call succeeds, or fails
for good, wherever the program makes one); the delegating methods of
`evernote_client_api_tokenized.py`; cryptography and PKCE of the logins; the
fixed layout of an ENEX file, pickle and lzma; option parsing and logging;
`manage ping`, which keeps nothing. Known limits of the models: two overlapping
runs of `sync`, or two exports into one directory; two rows of
`notebooks_linked` for one notebook; equal times on the stream of shared notes
(`TaskSync` has them for tasks); a note that leaves a linked notebook; a note
that is trashed and restored as a share; a title that changes while an export
runs. While exploring `ForeignSync` it showed that rows of a linked notebook
that is left before its first chunk with the notebook itself was applied are
never removed; and while exploring `Commands`, that a version 0 database whose
upgrade dies after its tables were dropped refuses every later command, and one
whose upgrade dies just before `USN` is reset is never scanned from the start.

## Plan

1. Two overlapping processes in `NoteSync`, and which of its invariants they
   break.
2. Two linked rows for one notebook in `ForeignSync`.
3. Abstract specifications of the stream of shares and of an export, as
   `BackupContract` is one of the account, with proofs that the models
   implement them.
